---- MODULE Spec2Model ----
(***************************************************************************)
(* Model of the stores of wp-interactivity-frontend-demo.                  *)
(*                                                                         *)
(* Kanban board (src/src/complex/kanban/kanban.ts): the command engine     *)
(* (executeCommand, reverseCommand, pushCommand), undo / redo / revision   *)
(* jumps and the drag session.                                             *)
(*                                                                         *)
(* JavaScript values are represented as follows.                           *)
(*   - a string is a sequence of one-character strings, so that trim()     *)
(*     and slice() are computed and not assumed;                           *)
(*   - null is Null, undefined is Undefined;                               *)
(*   - a card is an object: the board and the commands hold references     *)
(*     (Ref) into the object store kanban.objects, so that two holders of  *)
(*     the same object see each other's writes, as in the source;          *)
(*   - array positions keep the source's 0-based numbering; they are       *)
(*     shifted by one where a TLA+ sequence is indexed.                    *)
(***************************************************************************)
EXTENDS Integers, Sequences, FiniteSets, TLC

VARIABLES
    kanban,   \* the KanbanContext, the card objects it reaches and commandSeqId
    before,   \* history variable: the board as it was before each retained command
    quota,    \* number of commands the run may still record
    page      \* the other widgets of the page, each under its namespace

vars == <<kanban, before, quota, page>>

\* ---------------------------------------------------------------- bounds

\* Commands recorded in one run from the initial board.
MaxCommands == 2
\* Cards that createCard may add in one run.
MaxNewCards == 1

\* ------------------------------------------------------ program constants

MAX_TITLE_LENGTH == 200
MAX_HISTORY_SIZE == 50

\* ----------------------------------------------------------- JS values

Null == "null"
Undefined == <<"undefined">>

\* A string of the model: "ab" is <<"a", "b">>.
Space == " "

Min(S) == CHOOSE x \in S : \A y \in S : x <= y

\* String.prototype.trim
RECURSIVE TrimStart(_)
TrimStart(s) ==
    IF s # <<>> /\ Head(s) = Space THEN TrimStart(Tail(s)) ELSE s

RECURSIVE TrimEnd(_)
TrimEnd(s) ==
    IF s # <<>> /\ s[Len(s)] = Space THEN TrimEnd(SubSeq(s, 1, Len(s) - 1)) ELSE s

Trim(s) == TrimEnd(TrimStart(s))

\* s.slice( 0, n )
SliceTo(s, n) == IF Len(s) <= n THEN s ELSE SubSeq(s, 1, n)

\* s.slice( -n ) on an array
SliceLast(s, n) == IF Len(s) <= n THEN s ELSE SubSeq(s, Len(s) - n + 1, Len(s))

\* value || undefined  (an empty string is falsy)
OrUndefined(s) == IF s = <<>> \/ s = Undefined THEN Undefined ELSE s

\* value || ''
OrEmpty(s) == IF s = Undefined THEN <<>> ELSE s

\* array.splice( i, 1 ), i a valid 0-based position
RemoveAt(s, i) == SubSeq(s, 1, i) \o SubSeq(s, i + 2, Len(s))

\* array.splice( i, 0, x ): a start beyond the length is clamped to it
InsertAt(s, i, x) ==
    LET at == IF i > Len(s) THEN Len(s) ELSE i
    IN  SubSeq(s, 1, at) \o <<x>> \o SubSeq(s, at + 1, Len(s))

\* ------------------------------------------------------------ the board

ColumnIds == <<"todo", "doing", "done">>

\* The object a card id was first given, and the copies deleteCard makes of it.
Ref(id, gen) == [id |-> id, gen |-> gen]

Card(id, title, priority, description, assignee) ==
    [id |-> id, title |-> title, priority |-> priority,
     description |-> description, assignee |-> assignee]

\* cards.findIndex( c => c.id === cardId )
FindCardIndex(cards, objects, cardId) ==
    LET hits == {i \in 1..Len(cards) : objects[cards[i]].id = cardId}
    IN  IF hits = {} THEN -1 ELSE Min(hits) - 1

\* columns.find( c => c.id === id ): the position of the column, 0 when absent
findColumn(columns, id) ==
    LET hits == {i \in 1..Len(columns) : columns[i].id = id}
    IN  IF hits = {} THEN 0 ELSE Min(hits)

NoLocation == [column |-> 0, index |-> -1]

findCardLocation(doc, cardId) ==
    LET hits == {i \in 1..Len(doc.columns) :
                    FindCardIndex(doc.columns[i].cards, doc.objects, cardId) # -1}
    IN  IF hits = {} THEN NoLocation
        ELSE [column |-> Min(hits),
              index |-> FindCardIndex(doc.columns[Min(hits)].cards, doc.objects, cardId)]

\* The document executeCommand and reverseCommand work on: the columns and the
\* card objects reachable from them or from the command.
Doc(st) == [columns |-> st.columns, objects |-> st.objects]

SetFields(objects, ref, values) ==
    [objects EXCEPT ![ref] =
        [@ EXCEPT !.title = values.title,
                  !.priority = values.priority,
                  !.description = OrUndefined(values.description),
                  !.assignee = OrUndefined(values.assignee)]]

executeCommand(doc, command) ==
    CASE command.type = "move" ->
            LET location == findCardLocation(doc, command.cardId)
            IN  IF location = NoLocation THEN doc
                ELSE
                LET card == doc.columns[location.column].cards[location.index + 1]
                    removed == [doc.columns EXCEPT ![location.column].cards =
                                    RemoveAt(@, location.index)]
                    targetColumn == findColumn(removed, command.to.columnId)
                IN  IF targetColumn # 0
                    THEN [doc EXCEPT !.columns =
                            [removed EXCEPT ![targetColumn].cards =
                                InsertAt(@, command.to.index, card)]]
                    ELSE [doc EXCEPT !.columns = removed]
      [] command.type = "create" ->
            LET column == findColumn(doc.columns, command.columnId)
            IN  IF column # 0
                THEN [doc EXCEPT !.columns[column].cards = Append(@, command.card)]
                ELSE doc
      [] command.type = "edit" ->
            LET location == findCardLocation(doc, command.cardId)
            IN  IF location # NoLocation
                THEN [doc EXCEPT !.objects =
                        SetFields(@, doc.columns[location.column].cards[location.index + 1],
                                  command.newValues)]
                ELSE doc
      [] command.type = "delete" ->
            LET column == findColumn(doc.columns, command.columnId)
            IN  IF column # 0
                THEN LET index == FindCardIndex(doc.columns[column].cards, doc.objects,
                                                doc.objects[command.card].id)
                     IN  IF index # -1
                         THEN [doc EXCEPT !.columns[column].cards = RemoveAt(@, index)]
                         ELSE doc
                ELSE doc

\* reverseCommand, case Move, with the card put back at the end of its column
reverseMoveToEnd(doc, command) ==
    LET location == findCardLocation(doc, command.cardId)
    IN  IF location = NoLocation THEN doc
        ELSE
        LET card == doc.columns[location.column].cards[location.index + 1]
            removed == [doc.columns EXCEPT ![location.column].cards =
                            RemoveAt(@, location.index)]
            sourceColumn == findColumn(removed, command.from.columnId)
        IN  IF sourceColumn # 0
            THEN [doc EXCEPT !.columns =
                    [removed EXCEPT ![sourceColumn].cards = Append(@, card)]]
            ELSE [doc EXCEPT !.columns = removed]

\* reverseCommand, case Move, leaving the card where it was as well
reverseMoveKeepCard(doc, command) ==
    LET location == findCardLocation(doc, command.cardId)
    IN  IF location = NoLocation THEN doc
        ELSE
        LET card == doc.columns[location.column].cards[location.index + 1]
            sourceColumn == findColumn(doc.columns, command.from.columnId)
        IN  IF sourceColumn # 0
            THEN [doc EXCEPT !.columns[sourceColumn].cards =
                        InsertAt(@, command.from.index, card)]
            ELSE doc

\* reverseCommand, case Move
reverseMove(doc, command) ==
    LET location == findCardLocation(doc, command.cardId)
    IN  IF location = NoLocation THEN doc
        ELSE
        LET card == doc.columns[location.column].cards[location.index + 1]
            removed == [doc.columns EXCEPT ![location.column].cards =
                            RemoveAt(@, location.index)]
            sourceColumn == findColumn(removed, command.from.columnId)
        IN  IF sourceColumn # 0
            THEN [doc EXCEPT !.columns =
                    [removed EXCEPT ![sourceColumn].cards =
                        InsertAt(@, command.from.index, card)]]
            ELSE [doc EXCEPT !.columns = removed]

\* reverseCommand, case Create
reverseCreate(doc, command) ==
    LET column == findColumn(doc.columns, command.columnId)
    IN  IF column # 0
        THEN LET index == FindCardIndex(doc.columns[column].cards, doc.objects,
                                        doc.objects[command.card].id)
             IN  IF index # -1
                 THEN [doc EXCEPT !.columns[column].cards = RemoveAt(@, index)]
                 ELSE doc
        ELSE doc

\* reverseCommand, case Edit
reverseEdit(doc, command) ==
    LET location == findCardLocation(doc, command.cardId)
    IN  IF location # NoLocation
        THEN [doc EXCEPT !.objects =
                SetFields(@, doc.columns[location.column].cards[location.index + 1],
                          command.oldValues)]
        ELSE doc

\* reverseCommand, case Delete, with the card put back at the end of its column
reverseDeleteToEnd(doc, command) ==
    LET column == findColumn(doc.columns, command.columnId)
    IN  IF column # 0
        THEN [doc EXCEPT !.columns[column].cards = Append(@, command.card)]
        ELSE doc

\* reverseCommand, case Delete
reverseDelete(doc, command) ==
    LET column == findColumn(doc.columns, command.columnId)
    IN  IF column # 0
        THEN [doc EXCEPT !.columns[column].cards =
                InsertAt(@, command.index, command.card)]
        ELSE doc

reverseCommand(doc, command) ==
    CASE command.type = "move" -> reverseMove(doc, command)
      [] command.type = "create" -> reverseCreate(doc, command)
      [] command.type = "edit" -> reverseEdit(doc, command)
      [] command.type = "delete" -> reverseDelete(doc, command)

\* pushCommand without the size limit
pushCommandUnbounded(st, command) ==
    LET pushed == Append(SubSeq(st.history, 1, st.historyIndex + 1), command)
    IN  [st EXCEPT !.history = pushed, !.historyIndex = Len(pushed) - 1]

\* pushCommand dropping the newest entries of a log that is too long
pushCommandKeepOldest(st, command) ==
    LET pushed == Append(SubSeq(st.history, 1, st.historyIndex + 1), command)
    IN  IF Len(pushed) > MAX_HISTORY_SIZE
        THEN [st EXCEPT !.history = SliceTo(pushed, MAX_HISTORY_SIZE),
                        !.historyIndex = MAX_HISTORY_SIZE - 1]
        ELSE [st EXCEPT !.history = pushed, !.historyIndex = Len(pushed) - 1]

\* pushCommand keeping the entries after the index
pushCommandKeepBranch(st, command) ==
    LET pushed == Append(st.history, command)
    IN  [st EXCEPT !.history = SliceLast(pushed, MAX_HISTORY_SIZE),
                   !.historyIndex = Len(SliceLast(pushed, MAX_HISTORY_SIZE)) - 1]

\* pushCommand putting the new command in front of the log
pushCommandInFront(st, command) ==
    LET pushed == <<command>> \o SubSeq(st.history, 1, st.historyIndex + 1)
    IN  [st EXCEPT !.history = SliceLast(pushed, MAX_HISTORY_SIZE),
                   !.historyIndex = Len(SliceLast(pushed, MAX_HISTORY_SIZE)) - 1]

\* context.history = ... ; context.historyIndex = ...
pushCommand(st, command) ==
    LET truncated == SubSeq(st.history, 1, st.historyIndex + 1)
        pushed == Append(truncated, command)
    IN  IF Len(pushed) > MAX_HISTORY_SIZE
        THEN LET kept == SliceLast(pushed, MAX_HISTORY_SIZE)
             IN  [st EXCEPT !.history = kept,
                            !.historyIndex =
                                IF st.historyIndex < Len(kept) - 1
                                THEN st.historyIndex ELSE Len(kept) - 1]
        ELSE [st EXCEPT !.history = pushed, !.historyIndex = Len(pushed) - 1]

\* ------------------------------------------------------------- helpers

\* title.trim().slice( 0, MAX_TITLE_LENGTH )
sanitizeTitle(title) == SliceTo(Trim(title), MAX_TITLE_LENGTH)

resetDragState(st) ==
    [st EXCEPT !.draggedCardId = Null,
               !.sourceColumnId = Null,
               !.dropTargetColumnId = Null,
               !.dropTargetCardId = Null]

resetNewCardModal(st) ==
    [st EXCEPT !.newCardModalOpen = FALSE,
               !.newCardColumnId = Null,
               !.newCardTitle = <<>>,
               !.newCardDescription = <<>>,
               !.newCardAssignee = <<>>]

initNewCardModal(st, columnId) ==
    [st EXCEPT !.newCardColumnId = columnId,
               !.newCardModalOpen = TRUE,
               !.newCardTitle = <<>>,
               !.newCardPriority = "medium",
               !.newCardDescription = <<>>,
               !.newCardAssignee = <<>>]

\* generateId(): a fresh id at every call
NewCardIds == <<"n1", "n2", "n3">>
generateId(st) == NewCardIds[st.generated + 1]

WithDoc(st, doc) == [st EXCEPT !.columns = doc.columns, !.objects = doc.objects]

\* performEdit saving a title that is blank as well
performEditAnyTitle(st) ==
    LET sanitizedTitle == sanitizeTitle(st.editTitle)
    IN  IF st.editingCardId = Null
        THEN [st EXCEPT !.editingCardId = Null]
        ELSE
        LET location == findCardLocation(Doc(st), st.editingCardId)
        IN  IF location = NoLocation
            THEN [st EXCEPT !.editingCardId = Null]
            ELSE
            LET ref == st.columns[location.column].cards[location.index + 1]
                card == st.objects[ref]
                oldValues == [title |-> card.title,
                              priority |-> card.priority,
                              description |-> OrEmpty(card.description),
                              assignee |-> OrEmpty(card.assignee)]
                newValues == [title |-> sanitizedTitle,
                              priority |-> st.editPriority,
                              description |-> Trim(st.editDescription),
                              assignee |-> Trim(st.editAssignee)]
                command == [type |-> "edit",
                            cardId |-> st.editingCardId,
                            oldValues |-> oldValues,
                            newValues |-> newValues,
                            seqId |-> st.commandSeqId + 1]
                edited == [st EXCEPT !.commandSeqId = @ + 1,
                                     !.objects = SetFields(@, ref, newValues)]
            IN  [pushCommand(edited, command) EXCEPT !.editingCardId = Null]

performEdit(st) ==
    LET sanitizedTitle == sanitizeTitle(st.editTitle)
    IN  IF st.editingCardId = Null \/ sanitizedTitle = <<>>
        THEN [st EXCEPT !.editingCardId = Null]
        ELSE
        LET location == findCardLocation(Doc(st), st.editingCardId)
        IN  IF location = NoLocation
            THEN [st EXCEPT !.editingCardId = Null]
            ELSE
            LET ref == st.columns[location.column].cards[location.index + 1]
                card == st.objects[ref]
                oldValues == [title |-> card.title,
                              priority |-> card.priority,
                              description |-> OrEmpty(card.description),
                              assignee |-> OrEmpty(card.assignee)]
                newValues == [title |-> sanitizedTitle,
                              priority |-> st.editPriority,
                              description |-> Trim(st.editDescription),
                              assignee |-> Trim(st.editAssignee)]
                command == [type |-> "edit",
                            cardId |-> st.editingCardId,
                            oldValues |-> oldValues,
                            newValues |-> newValues,
                            seqId |-> st.commandSeqId + 1]
                edited == [st EXCEPT !.commandSeqId = @ + 1,
                                     !.objects = SetFields(@, ref, newValues)]
            IN  [pushCommand(edited, command) EXCEPT !.editingCardId = Null]

\* performUndo stepping the index down whatever it is
performUndoUnguarded(st) ==
    [(IF st.historyIndex >= 0
      THEN WithDoc(st, reverseCommand(Doc(st), st.history[st.historyIndex + 1]))
      ELSE st) EXCEPT !.historyIndex = @ - 1]

performUndo(st) ==
    IF st.historyIndex >= 0
    THEN [WithDoc(st, reverseCommand(Doc(st), st.history[st.historyIndex + 1]))
            EXCEPT !.historyIndex = @ - 1]
    ELSE st

\* performRedo stepping the index up whatever it is
performRedoUnguarded(st) ==
    [(IF st.historyIndex < Len(st.history) - 1
      THEN WithDoc(st, executeCommand(Doc(st), st.history[st.historyIndex + 2]))
      ELSE st) EXCEPT !.historyIndex = @ + 1]

performRedo(st) ==
    IF st.historyIndex < Len(st.history) - 1
    THEN [WithDoc(st, executeCommand(Doc(st), st.history[st.historyIndex + 2]))
            EXCEPT !.historyIndex = @ + 1]
    ELSE st

\* state.canUndo / state.canRedo
canUndo(st) == st.historyIndex >= 0
canRedo(st) == st.historyIndex < Len(st.history) - 1

\* ------------------------------------------------------------- actions
\* Each handler as a function of the state; `item` is context.item, the card,
\* column or command of the list block the event came from.

handleDragStart(st, cardId) ==
    LET location == findCardLocation(Doc(st), cardId)
    IN  [st EXCEPT !.draggedCardId = cardId,
                   !.sourceColumnId =
                        IF location # NoLocation
                        THEN st.columns[location.column].id ELSE @]

handleDragOver(st, columnId) ==
    IF columnId # st.sourceColumnId
    THEN [st EXCEPT !.dropTargetColumnId = columnId, !.dropTargetCardId = Null]
    ELSE st

handleCardDragOver(st, cardId, position) ==
    IF cardId = st.draggedCardId
    THEN st
    ELSE [st EXCEPT !.dropTargetCardId = cardId, !.dropPosition = position]

handleCardDragLeave(st, cardId) ==
    IF st.dropTargetCardId = cardId
    THEN [st EXCEPT !.dropTargetCardId = Null]
    ELSE st

\* handleDropOnColumn inserting at insertIndex in the source column as well
handleDropOnColumnUnadjusted(st, targetColumnId) ==
    IF st.draggedCardId = Null \/ st.sourceColumnId = Null
    THEN st
    ELSE
    LET sourceColumn == findColumn(st.columns, st.sourceColumnId)
        targetColumn == findColumn(st.columns, targetColumnId)
    IN  IF sourceColumn = 0 \/ targetColumn = 0
        THEN st
        ELSE
        LET cardIndex == FindCardIndex(st.columns[sourceColumn].cards, st.objects,
                                       st.draggedCardId)
        IN  IF cardIndex = -1
            THEN st
            ELSE
            LET card == st.columns[sourceColumn].cards[cardIndex + 1]
                targetCards == st.columns[targetColumn].cards
                targetIndex == IF st.dropTargetCardId # Null
                               THEN FindCardIndex(targetCards, st.objects, st.dropTargetCardId)
                               ELSE -1
                insertIndex == IF targetIndex # -1
                               THEN IF st.dropPosition = "before"
                                    THEN targetIndex ELSE targetIndex + 1
                               ELSE Len(targetCards)
                finalIndex == IF insertIndex > cardIndex THEN insertIndex - 1 ELSE insertIndex
            IN  IF sourceColumn = targetColumn /\ finalIndex = cardIndex
                THEN resetDragState(st)
                ELSE
                LET actualInsertIndex == insertIndex
                    command == [type |-> "move",
                                cardId |-> st.objects[card].id,
                                cardTitle |-> st.objects[card].title,
                                from |-> [columnId |-> st.sourceColumnId, index |-> cardIndex],
                                to |-> [columnId |-> targetColumnId, index |-> insertIndex],
                                seqId |-> st.commandSeqId + 1]
                    removed == [st.columns EXCEPT ![sourceColumn].cards =
                                    RemoveAt(@, cardIndex)]
                    moved == [removed EXCEPT ![targetColumn].cards =
                                    InsertAt(@, actualInsertIndex, card)]
                IN  resetDragState(
                        pushCommand([st EXCEPT !.commandSeqId = @ + 1, !.columns = moved],
                                    command))

\* handleDropOnColumn without the check for a drop that moves nothing
handleDropOnColumnNoSkip(st, targetColumnId) ==
    IF st.draggedCardId = Null \/ st.sourceColumnId = Null
    THEN st
    ELSE
    LET sourceColumn == findColumn(st.columns, st.sourceColumnId)
        targetColumn == findColumn(st.columns, targetColumnId)
    IN  IF sourceColumn = 0 \/ targetColumn = 0
        THEN st
        ELSE
        LET cardIndex == FindCardIndex(st.columns[sourceColumn].cards, st.objects,
                                       st.draggedCardId)
        IN  IF cardIndex = -1
            THEN st
            ELSE
            LET card == st.columns[sourceColumn].cards[cardIndex + 1]
                targetCards == st.columns[targetColumn].cards
                targetIndex == IF st.dropTargetCardId # Null
                               THEN FindCardIndex(targetCards, st.objects, st.dropTargetCardId)
                               ELSE -1
                insertIndex == IF targetIndex # -1
                               THEN IF st.dropPosition = "before"
                                    THEN targetIndex ELSE targetIndex + 1
                               ELSE Len(targetCards)
                finalIndex == IF insertIndex > cardIndex THEN insertIndex - 1 ELSE insertIndex
            IN
                LET actualInsertIndex ==
                        IF sourceColumn = targetColumn /\ insertIndex > cardIndex
                        THEN insertIndex - 1 ELSE insertIndex
                    command == [type |-> "move",
                                cardId |-> st.objects[card].id,
                                cardTitle |-> st.objects[card].title,
                                from |-> [columnId |-> st.sourceColumnId, index |-> cardIndex],
                                to |-> [columnId |-> targetColumnId, index |-> insertIndex],
                                seqId |-> st.commandSeqId + 1]
                    removed == [st.columns EXCEPT ![sourceColumn].cards =
                                    RemoveAt(@, cardIndex)]
                    moved == [removed EXCEPT ![targetColumn].cards =
                                    InsertAt(@, actualInsertIndex, card)]
                IN  resetDragState(
                        pushCommand([st EXCEPT !.commandSeqId = @ + 1, !.columns = moved],
                                    command))

handleDropOnColumn(st, targetColumnId) ==
    IF st.draggedCardId = Null \/ st.sourceColumnId = Null
    THEN st
    ELSE
    LET sourceColumn == findColumn(st.columns, st.sourceColumnId)
        targetColumn == findColumn(st.columns, targetColumnId)
    IN  IF sourceColumn = 0 \/ targetColumn = 0
        THEN st
        ELSE
        LET cardIndex == FindCardIndex(st.columns[sourceColumn].cards, st.objects,
                                       st.draggedCardId)
        IN  IF cardIndex = -1
            THEN st
            ELSE
            LET card == st.columns[sourceColumn].cards[cardIndex + 1]
                targetCards == st.columns[targetColumn].cards
                targetIndex == IF st.dropTargetCardId # Null
                               THEN FindCardIndex(targetCards, st.objects, st.dropTargetCardId)
                               ELSE -1
                insertIndex == IF targetIndex # -1
                               THEN IF st.dropPosition = "before"
                                    THEN targetIndex ELSE targetIndex + 1
                               ELSE Len(targetCards)
                finalIndex == IF insertIndex > cardIndex THEN insertIndex - 1 ELSE insertIndex
            IN  IF sourceColumn = targetColumn /\ finalIndex = cardIndex
                THEN resetDragState(st)
                ELSE
                LET actualInsertIndex ==
                        IF sourceColumn = targetColumn /\ insertIndex > cardIndex
                        THEN insertIndex - 1 ELSE insertIndex
                    command == [type |-> "move",
                                cardId |-> st.objects[card].id,
                                cardTitle |-> st.objects[card].title,
                                from |-> [columnId |-> st.sourceColumnId, index |-> cardIndex],
                                to |-> [columnId |-> targetColumnId, index |-> insertIndex],
                                seqId |-> st.commandSeqId + 1]
                    removed == [st.columns EXCEPT ![sourceColumn].cards =
                                    RemoveAt(@, cardIndex)]
                    moved == [removed EXCEPT ![targetColumn].cards =
                                    InsertAt(@, actualInsertIndex, card)]
                IN  resetDragState(
                        pushCommand([st EXCEPT !.commandSeqId = @ + 1, !.columns = moved],
                                    command))

handleDragEnd(st) == resetDragState(st)

\* createCard taking a title that is blank as well
createCardAnyTitle(st) ==
    LET sanitizedTitle == sanitizeTitle(st.newCardTitle)
    IN  IF st.newCardColumnId = Null
        THEN st
        ELSE
        LET column == findColumn(st.columns, st.newCardColumnId)
        IN  IF column = 0
            THEN resetNewCardModal(st)
            ELSE
            LET id == generateId(st)
                newCard == Ref(id, 0)
                command == [type |-> "create",
                            card |-> newCard,
                            columnId |-> st.newCardColumnId,
                            seqId |-> st.commandSeqId + 1]
                created ==
                    [st EXCEPT !.generated = @ + 1,
                               !.commandSeqId = @ + 1,
                               !.objects = (newCard :>
                                    Card(id, sanitizedTitle, st.newCardPriority,
                                         OrUndefined(Trim(st.newCardDescription)),
                                         OrUndefined(Trim(st.newCardAssignee)))) @@ @,
                               !.columns[column].cards = Append(@, newCard)]
            IN  [pushCommand(created, command) EXCEPT !.newCardModalOpen = FALSE,
                                                      !.newCardTitle = <<>>]

createCard(st) ==
    LET sanitizedTitle == sanitizeTitle(st.newCardTitle)
    IN  IF sanitizedTitle = <<>> \/ st.newCardColumnId = Null
        THEN st
        ELSE
        LET column == findColumn(st.columns, st.newCardColumnId)
        IN  IF column = 0
            THEN resetNewCardModal(st)
            ELSE
            LET id == generateId(st)
                newCard == Ref(id, 0)
                command == [type |-> "create",
                            card |-> newCard,
                            columnId |-> st.newCardColumnId,
                            seqId |-> st.commandSeqId + 1]
                created ==
                    [st EXCEPT !.generated = @ + 1,
                               !.commandSeqId = @ + 1,
                               !.objects = (newCard :>
                                    Card(id, sanitizedTitle, st.newCardPriority,
                                         OrUndefined(Trim(st.newCardDescription)),
                                         OrUndefined(Trim(st.newCardAssignee)))) @@ @,
                               !.columns[column].cards = Append(@, newCard)]
            IN  [pushCommand(created, command) EXCEPT !.newCardModalOpen = FALSE,
                                                      !.newCardTitle = <<>>]

editCard(st, cardRef) ==
    LET card == st.objects[cardRef]
    IN  [st EXCEPT !.editingCardId = card.id,
                   !.editTitle = card.title,
                   !.editPriority = card.priority,
                   !.editDescription = OrEmpty(card.description),
                   !.editAssignee = OrEmpty(card.assignee)]

cancelEdit(st) == [st EXCEPT !.editingCardId = Null]

deleteCard(st, cardRef) ==
    LET card == st.objects[cardRef]
        location == findCardLocation(Doc(st), card.id)
    IN  IF location = NoLocation
        THEN st
        ELSE
        LET copy == Ref(card.id, st.commandSeqId + 1)
            command == [type |-> "delete",
                        card |-> copy,
                        columnId |-> st.columns[location.column].id,
                        index |-> location.index,
                        seqId |-> st.commandSeqId + 1]
            deleted == [st EXCEPT !.commandSeqId = @ + 1,
                                  !.objects = (copy :> card) @@ @,
                                  !.columns[location.column].cards =
                                        RemoveAt(@, location.index)]
        IN  pushCommand(deleted, command)

\* history.findIndex( c => c.seqId === command.seqId )
FindCommandIndex(history, seqId) ==
    LET hits == {i \in 1..Len(history) : history[i].seqId = seqId}
    IN  IF hits = {} THEN -1 ELSE Min(hits) - 1

\* state.isCurrentRevision, context.item being command
isCurrentRevision(st, command) ==
    FindCommandIndex(st.history, command.seqId) = st.historyIndex

\* for ( i = from; i <= to; i++ ) executeCommand( columns, history[ i ] )
\* (on a board without columns no command has an effect: the loop may stop)
RECURSIVE ExecuteRange(_, _, _, _)
ExecuteRange(doc, history, i, to) ==
    IF i > to THEN doc
    ELSE LET done == executeCommand(doc, history[i + 1])
         IN  IF done.columns = <<>> THEN done
             ELSE ExecuteRange(done, history, i + 1, to)

\* The rewinding loop stopping one command early.
RECURSIVE ReverseRangeShort(_, _, _, _)
ReverseRangeShort(doc, history, i, to) ==
    IF i <= to + 1 THEN doc
    ELSE LET undone == reverseCommand(doc, history[i + 1])
         IN  IF undone.columns = <<>> THEN undone
             ELSE ReverseRangeShort(undone, history, i - 1, to)

\* for ( i = from; i > to; i-- ) reverseCommand( columns, history[ i ] )
\* (stopping on a board without columns, as the replay loop does)
RECURSIVE ReverseRange(_, _, _, _)
ReverseRange(doc, history, i, to) ==
    IF i <= to THEN doc
    ELSE LET undone == reverseCommand(doc, history[i + 1])
         IN  IF undone.columns = <<>> THEN undone
             ELSE ReverseRange(undone, history, i - 1, to)

jumpToRevision(st, seqId) ==
    LET targetIndex == FindCommandIndex(st.history, seqId)
    IN  IF targetIndex = -1
        THEN st
        ELSE
        LET doc == IF targetIndex > st.historyIndex
                   THEN ExecuteRange(Doc(st), st.history, st.historyIndex + 1, targetIndex)
                   ELSE IF targetIndex < st.historyIndex
                   THEN ReverseRange(Doc(st), st.history, st.historyIndex, targetIndex)
                   ELSE Doc(st)
        IN  [WithDoc(st, doc) EXCEPT !.historyIndex = targetIndex]

\* resetToInitial leaving the oldest command of the log in effect
resetToInitialButOldest(st) ==
    [WithDoc(st, ReverseRange(Doc(st), st.history, st.historyIndex, 0))
        EXCEPT !.historyIndex = IF @ >= 0 THEN -1 ELSE @]

resetToInitial(st) ==
    [WithDoc(st, ReverseRange(Doc(st), st.history, st.historyIndex, -1))
        EXCEPT !.historyIndex = IF @ >= 0 THEN -1 ELSE @]

handleGlobalKeydown(st, key) ==
    CASE key = "ctrl+z" -> performUndo(st)
      [] key = "ctrl+shift+Z" -> performRedo(st)
      [] key = "Escape" ->
            LET closed == IF st.newCardModalOpen THEN resetNewCardModal(st) ELSE st
            IN  IF closed.editingCardId # Null
                THEN [closed EXCEPT !.editingCardId = Null] ELSE closed
      [] key = "n" -> initNewCardModal(st, IF Len(st.columns) > 0 THEN st.columns[1].id ELSE Null)
      [] OTHER -> st

\* ------------------------------------------------------- live search
\* src/src/complex/live-search/live-search.ts. The state of the widget is its
\* context and the invocations of updateQuery that are suspended or over.

UpperToLower ==
    ("A" :> "a") @@
    ("B" :> "b") @@
    ("C" :> "c") @@
    ("D" :> "d") @@
    ("E" :> "e") @@
    ("F" :> "f") @@
    ("G" :> "g") @@
    ("H" :> "h") @@
    ("I" :> "i") @@
    ("J" :> "j") @@
    ("K" :> "k") @@
    ("L" :> "l") @@
    ("M" :> "m") @@
    ("N" :> "n") @@
    ("O" :> "o") @@
    ("P" :> "p") @@
    ("Q" :> "q") @@
    ("R" :> "r") @@
    ("S" :> "s") @@
    ("T" :> "t") @@
    ("U" :> "u") @@
    ("V" :> "v") @@
    ("W" :> "w") @@
    ("X" :> "x") @@
    ("Y" :> "y") @@
    ("Z" :> "z")

\* String.prototype.toLowerCase
ToLowerCase(s) ==
    [i \in 1..Len(s) |-> IF s[i] \in DOMAIN UpperToLower THEN UpperToLower[s[i]] ELSE s[i]]

\* String.prototype.includes
Includes(s, part) ==
    \E i \in 0..(Len(s) - Len(part)) : SubSeq(s, i + 1, i + Len(part)) = part

\* Entries 1, 8 and 10 of searchDatabase; a category is the text of its
\* SearchCategory member.
searchDatabase ==
    << [id |-> 1,
        title |-> <<"R", "e", "a", "c", "t", " ", "H", "o", "o", "k", "s">>,
        description |-> <<"u", "s", "e", "S", "t", "a", "t", "e", ",", " ", "u", "s", "e", "E", "f", "f", "e", "c", "t", ",", " ", "u", "s", "e", "C", "o", "n", "t", "e", "x", "t">>,
        category |-> <<"f", "r", "o", "n", "t", "e", "n", "d">>],
       [id |-> 8,
        title |-> <<"S", "Q", "L", " ", "J", "o", "i", "n", "s">>,
        description |-> <<"I", "n", "n", "e", "r", ",", " ", "o", "u", "t", "e", "r", ",", " ", "a", "n", "d", " ", "c", "r", "o", "s", "s", " ", "j", "o", "i", "n", "s">>,
        category |-> <<"d", "a", "t", "a", "b", "a", "s", "e">>],
       [id |-> 10,
        title |-> <<"R", "e", "d", "i", "s", " ", "C", "a", "c", "h", "i", "n", "g">>,
        description |-> <<"I", "n", "-", "m", "e", "m", "o", "r", "y", " ", "d", "a", "t", "a", " ", "s", "t", "r", "u", "c", "t", "u", "r", "e", "s">>,
        category |-> <<"d", "a", "t", "a", "b", "a", "s", "e">>] >>

\* array.filter( keep ), keep a function of the position
RECURSIVE FilterFrom(_, _, _)
FilterFrom(s, keep, i) ==
    IF i > Len(s) THEN <<>>
    ELSE (IF keep[i] THEN <<s[i]>> ELSE <<>>) \o FilterFrom(s, keep, i + 1)

\* What simulateSearch( query ) resolves with.
simulateSearch(query) ==
    LET wanted == ToLowerCase(query)
        keep == [i \in 1..Len(searchDatabase) |->
                    \/ Includes(ToLowerCase(searchDatabase[i].title), wanted)
                    \/ Includes(ToLowerCase(searchDatabase[i].description), wanted)
                    \/ Includes(ToLowerCase(searchDatabase[i].category), wanted)]
    IN  FilterFrom(searchDatabase, keep, 1)

\* The context after callbacks.init, no invocation of updateQuery yet.
InitialLiveSearch ==
    [query |-> <<>>,
     results |-> <<>>,
     isLoading |-> FALSE,
     selectedIndex |-> -1,
     isOpen |-> FALSE,
     recentSearches |-> <<>>,
     pendingSearchId |-> 0,
     tasks |-> <<>>,
     finished |-> <<>>,
     emptiedAt |-> 0]

\* updateQuery up to its first yield. An invocation is recorded with the point
\* it is suspended at (pc), its searchId and newQuery, and whether it has
\* assigned results or isLoading since it was first suspended.
updateQuery(ls, newQuery) ==
    LET typed == [ls EXCEPT !.query = newQuery, !.selectedIndex = -1]
    IN  IF Trim(newQuery) = <<>>
        THEN [typed EXCEPT !.results = <<>>,
                           !.isOpen = FALSE,
                           !.tasks = Append(@, [pc |-> "done", searchId |-> 0,
                                                newQuery |-> newQuery,
                                                wroteResults |-> FALSE,
                                                wroteLoading |-> FALSE]),
                           !.finished = Append(@, Len(ls.tasks) + 1),
                           !.emptiedAt = Len(ls.tasks) + 1]
        ELSE [typed EXCEPT !.isLoading = TRUE,
                           !.isOpen = TRUE,
                           !.pendingSearchId = ls.pendingSearchId + 1,
                           !.tasks = Append(@, [pc |-> "splitTask",
                                                searchId |-> ls.pendingSearchId + 1,
                                                newQuery |-> newQuery,
                                                wroteResults |-> FALSE,
                                                wroteLoading |-> FALSE])]

\* yield splitTask() returns: simulateSearch is called and awaited
afterSplitTask(ls, i) == [ls EXCEPT !.tasks[i].pc = "search"]

\* the try block after simulateSearch resolved
tryBlock(ls, i, results) ==
    IF ls.pendingSearchId = ls.tasks[i].searchId
    THEN [ls EXCEPT !.results = results, !.tasks[i].wroteResults = TRUE]
    ELSE ls

\* the catch block
catchBlock(ls, i) ==
    IF ls.pendingSearchId = ls.tasks[i].searchId
    THEN [ls EXCEPT !.results = <<>>,
                    !.isLoading = FALSE,
                    !.tasks[i].wroteResults = TRUE,
                    !.tasks[i].wroteLoading = TRUE]
    ELSE ls

\* the finally block clearing isLoading whatever the stored id
finallyBlockAlways(ls, i) ==
    [ls EXCEPT !.tasks[i].pc = "done",
               !.finished = Append(@, i),
               !.isLoading = FALSE,
               !.tasks[i].wroteLoading = TRUE]

\* the finally block; the invocation is over
finallyBlock(ls, i) ==
    LET over == [ls EXCEPT !.tasks[i].pc = "done", !.finished = Append(@, i)]
    IN  IF ls.pendingSearchId = ls.tasks[i].searchId
        THEN [over EXCEPT !.isLoading = FALSE, !.tasks[i].wroteLoading = TRUE]
        ELSE over

\* simulateSearch resolved, or the awaited call failed
searchResolved(ls, i) == finallyBlock(tryBlock(ls, i, simulateSearch(ls.tasks[i].newQuery)), i)
searchRejected(ls, i) == finallyBlock(catchBlock(ls, i), i)

\* [ title, ...recentSearches ].slice( 0, 5 ), unless the title is there
remember(recentSearches, title) ==
    IF \E k \in 1..Len(recentSearches) : recentSearches[k] = title
    THEN recentSearches
    ELSE SliceTo(<<title>> \o recentSearches, 5)

\* selectResult, context.item being result
selectResult(ls, result) ==
    [ls EXCEPT !.recentSearches = remember(@, result.title),
               !.query = <<>>,
               !.isOpen = FALSE,
               !.results = <<>>,
               !.emptiedAt = Len(ls.tasks)]

handleKeydown(ls, key) ==
    CASE key = "ArrowDown" ->
            IF Len(ls.results) > 0
            THEN [ls EXCEPT !.selectedIndex =
                    IF @ < Len(ls.results) - 1 THEN @ + 1 ELSE 0]
            ELSE ls
      [] key = "ArrowUp" ->
            IF Len(ls.results) > 0
            THEN [ls EXCEPT !.selectedIndex =
                    IF @ > 0 THEN @ - 1 ELSE Len(ls.results) - 1]
            ELSE ls
      [] key = "Enter" ->
            IF ls.selectedIndex >= 0 /\ ls.selectedIndex < Len(ls.results)
            THEN selectResult(ls, ls.results[ls.selectedIndex + 1])
            ELSE ls
      [] key = "Escape" -> [ls EXCEPT !.isOpen = FALSE]
      [] OTHER -> ls

focusInput(ls) == IF Trim(ls.query) # <<>> THEN [ls EXCEPT !.isOpen = TRUE] ELSE ls

\* the click was outside the component
closeOnOutsideClick(ls) == [ls EXCEPT !.isOpen = FALSE]

\* ------------------------------------------------- the drag and drop list

\* The context of the list as the page loads it.
InitialDragDrop ==
    [items |-> <<[id |-> "a", text |-> "one"],
                 [id |-> "b", text |-> "two"],
                 [id |-> "c", text |-> "three"]>>,
     draggedId |-> Null,
     dropTargetId |-> Null,
     isDragging |-> FALSE]

\* context.item on an element outside the rows
NoItem == [id |-> Null, text |-> Null]

\* if ( ! id ) return -1; items.findIndex( i => i.id === id )
getIndexById(items, id) ==
    IF id = Null \/ id = ""
    THEN -1
    ELSE LET hits == {k \in 1..Len(items) : items[k].id = id}
         IN  IF hits = {} THEN -1 ELSE Min(hits) - 1

\* getCurrentIndex, context.item being item
getCurrentIndex(dd, item) ==
    getIndexById(dd.items, item.id)

\* the list handleDrop leaves
droppedItems(dd) ==
    IF /\ dd.draggedId # Null /\ dd.draggedId # ""
       /\ dd.dropTargetId # Null /\ dd.dropTargetId # ""
       /\ dd.draggedId # dd.dropTargetId
    THEN LET fromIndex == getIndexById(dd.items, dd.draggedId)
             toIndex == getIndexById(dd.items, dd.dropTargetId)
         IN  IF fromIndex # -1 /\ toIndex # -1
             THEN InsertAt(RemoveAt(dd.items, fromIndex), toIndex, dd.items[fromIndex + 1])
             ELSE dd.items
    ELSE dd.items

\* handleDragStart of the drag and drop list, context.item being item
dragDropDragStart(dd, item) ==
    IF item = NoItem
    THEN dd
    ELSE [dd EXCEPT !.draggedId = item.id, !.isDragging = TRUE]

\* handleDragOver of the drag and drop list
dragDropDragOver(dd, item) ==
    IF item # NoItem /\ item.id # dd.draggedId
    THEN [dd EXCEPT !.dropTargetId = item.id]
    ELSE dd

handleDragLeave(dd) == [dd EXCEPT !.dropTargetId = Null]

\* handleDrop ending the session only when the list was reordered
handleDropIfMoved(dd) ==
    IF droppedItems(dd) # dd.items
    THEN [dd EXCEPT !.items = droppedItems(dd),
                    !.isDragging = FALSE,
                    !.draggedId = Null,
                    !.dropTargetId = Null]
    ELSE dd

handleDrop(dd) ==
    [dd EXCEPT !.items = droppedItems(dd),
               !.isDragging = FALSE,
               !.draggedId = Null,
               !.dropTargetId = Null]

\* handleDragEnd of the drag and drop list
dragDropDragEnd(dd) ==
    [dd EXCEPT !.isDragging = FALSE, !.draggedId = Null, !.dropTargetId = Null]

moveUp(dd, item) ==
    LET index == getCurrentIndex(dd, item)
    IN  IF index > 0
        THEN [dd EXCEPT !.items[index] = dd.items[index + 1],
                        !.items[index + 1] = dd.items[index]]
        ELSE dd

moveDown(dd, item) ==
    LET index == getCurrentIndex(dd, item)
    IN  IF index >= 0 /\ index < Len(dd.items) - 1
        THEN [dd EXCEPT !.items[index + 1] = dd.items[index + 2],
                        !.items[index + 2] = dd.items[index + 1]]
        ELSE dd

\* ------------------------------------------------------------ the todo list

\* The context of the todo list as the page loads it.
InitialTodoList ==
    [todos |-> <<>>,
     newTodoText |-> <<>>,
     nextId |-> 1]

\* addTodoItem putting the new todo first
addTodoItemInFront(td) ==
    LET text == Trim(td.newTodoText)
    IN  IF text # <<>>
        THEN [td EXCEPT !.todos = <<[id |-> td.nextId, text |-> text, completed |-> FALSE]>> \o @,
                        !.nextId = @ + 1,
                        !.newTodoText = <<>>]
        ELSE td

addTodoItem(td) ==
    LET text == Trim(td.newTodoText)
    IN  IF text # <<>>
        THEN [td EXCEPT !.todos = Append(@, [id |-> td.nextId, text |-> text, completed |-> FALSE]),
                        !.nextId = @ + 1,
                        !.newTodoText = <<>>]
        ELSE td

NotCompleted(t) == ~t.completed

\* state.remainingItems: todos.filter( t => ! t.completed ).length
remainingItems(td) == Len(SelectSeq(td.todos, NotCompleted))

updateNewTodoText(td, value) == [td EXCEPT !.newTodoText = value]

addTodo(td) == addTodoItem(td)

addTodoOnEnter(td, key) == IF key = "Enter" THEN addTodoItem(td) ELSE td

\* toggleTodo, context.item being the todo of row k
toggleTodo(td, k) == [td EXCEPT !.todos[k].completed = ~@]

\* deleteTodo, context.item being item
deleteTodo(td, item) ==
    LET hits == {k \in 1..Len(td.todos) : td.todos[k].id = item.id}
    IN  IF hits # {}
        THEN [td EXCEPT !.todos = RemoveAt(@, Min(hits) - 1)]
        ELSE td

toggleAll(td) ==
    LET allCompleted == \A k \in 1..Len(td.todos) : td.todos[k].completed
    IN  [td EXCEPT !.todos = [k \in 1..Len(td.todos) |->
                                [td.todos[k] EXCEPT !.completed = ~allCompleted]]]

clearCompleted(td) == [td EXCEPT !.todos = SelectSeq(@, NotCompleted)]

\* ------------------------------------------------------- the form wizard
\* src/src/complex/form-wizard/form-wizard.ts. The state of the wizard is its
\* context and the invocations of submitForm that are suspended or over.

MIN_NAME_LENGTH == 2
NAME_ERROR == "Name must be at least 2 characters"
EMAIL_ERROR == "Please enter a valid email address"

isValidName(name) == Len(Trim(name)) >= MIN_NAME_LENGTH

\* EMAIL_REGEX, /^[^\s@]+@[^\s@]+\.[^\s@]+$/, on the lower-cased address: one
\* "@" with text before it, a "." after it with text on both sides, and no
\* white space anywhere.
isValidEmail(email) ==
    IF email = <<>>
    THEN FALSE
    ELSE LET s == ToLowerCase(email)
         IN  \E at \in 2..Len(s) :
                /\ s[at] = "@"
                /\ \A k \in 1..Len(s) : s[k] # Space /\ (k # at => s[k] # "@")
                /\ \E dot \in (at + 2)..(Len(s) - 1) : s[dot] = "."

InitialFormWizard ==
    [currentStep |-> 1,
     totalSteps |-> 3,
     isSubmitting |-> FALSE,
     isComplete |-> FALSE,
     name |-> <<>>,
     email |-> <<>>,
     phone |-> <<>>,
     message |-> <<>>,
     errors |-> << >>,
     needsFocus |-> FALSE,
     tasks |-> <<>>]

isStepValid(fw) ==
    CASE fw.currentStep = 1 -> isValidName(fw.name)
      [] fw.currentStep = 2 -> isValidEmail(fw.email)
      [] fw.currentStep = 3 -> isValidName(fw.name) /\ isValidEmail(fw.email)
      [] OTHER -> TRUE

canGoForward(fw) == fw.currentStep < fw.totalSteps /\ isStepValid(fw)

nextStepUnbounded(fw) ==
    [fw EXCEPT !.currentStep = @ + 1,
               !.needsFocus = TRUE]

nextStep(fw) ==
    [fw EXCEPT !.currentStep = IF @ < fw.totalSteps THEN @ + 1 ELSE @,
               !.needsFocus = TRUE]

handleEnter(fw, key) ==
    IF key # "Enter" \/ ~canGoForward(fw) THEN fw ELSE nextStep(fw)

prevStep(fw) ==
    [fw EXCEPT !.currentStep = IF @ > 1 THEN @ - 1 ELSE @,
               !.needsFocus = TRUE]

updateFieldKeepErrors(fw, field, value) ==
    IF field = Null
    THEN fw
    ELSE LET written == CASE field = "name" -> [fw EXCEPT !.name = value]
                          [] field = "email" -> [fw EXCEPT !.email = value]
                          [] field = "phone" -> [fw EXCEPT !.phone = value]
                          [] field = "message" -> [fw EXCEPT !.message = value]
                          [] OTHER -> fw
             isValid == CASE field = "email" -> isValidEmail(value)
                          [] field = "name" -> isValidName(value)
                          [] OTHER -> TRUE
             errorMessage == IF field = "email" THEN EMAIL_ERROR ELSE NAME_ERROR
         IN  [written EXCEPT !.errors =
                IF ~isValid
                THEN [f \in DOMAIN fw.errors \cup {field} |->
                        IF f = field THEN errorMessage ELSE fw.errors[f]]
                ELSE fw.errors]

\* context.errors is a function from the fields in error to their messages.
updateField(fw, field, value) ==
    IF field = Null
    THEN fw
    ELSE LET written == CASE field = "name" -> [fw EXCEPT !.name = value]
                          [] field = "email" -> [fw EXCEPT !.email = value]
                          [] field = "phone" -> [fw EXCEPT !.phone = value]
                          [] field = "message" -> [fw EXCEPT !.message = value]
                          [] OTHER -> fw
             isValid == CASE field = "email" -> isValidEmail(value)
                          [] field = "name" -> isValidName(value)
                          [] OTHER -> TRUE
             errorMessage == IF field = "email" THEN EMAIL_ERROR ELSE NAME_ERROR
         IN  [written EXCEPT !.errors =
                IF ~isValid
                THEN [f \in DOMAIN fw.errors \cup {field} |->
                        IF f = field THEN errorMessage ELSE fw.errors[f]]
                ELSE [f \in DOMAIN fw.errors \ {field} |-> fw.errors[f]]]

\* submitForm up to its first yield: the invocation is suspended at splitTask.
submitFormLate(fw) ==
    IF ~isStepValid(fw)
    THEN fw
    ELSE [fw EXCEPT !.tasks = Append(@, [pc |-> "splitTask"])]

submitForm(fw) ==
    IF ~isStepValid(fw)
    THEN fw
    ELSE [fw EXCEPT !.isSubmitting = TRUE,
                    !.tasks = Append(@, [pc |-> "splitTask"])]

\* Invocation i goes on after splitTask and starts the timer of 1500 ms.
submitAfterSplitTask(fw, i) == [fw EXCEPT !.tasks[i].pc = "timer"]

\* The timer of invocation i fired: the rest of submitForm runs.
submitResolved(fw, i) ==
    [fw EXCEPT !.isSubmitting = FALSE,
               !.isComplete = TRUE,
               !.tasks[i].pc = "done"]

\* focusWhenVisible found an element to focus.
focusWhenVisible(fw) ==
    IF fw.needsFocus THEN [fw EXCEPT !.needsFocus = FALSE] ELSE fw

\* --------------------------------------------------------- the animation
\* src/src/complex/animation/animation.ts. The state of the widget is its
\* context, the animation frames that were requested and have neither fired nor
\* been cancelled, and the re-runs of the watch callback that are due.
\* progress is counted in thirds of a cycle: ProgressUnits stands for 1.0.

\* context._animationFrameId === undefined; requestAnimationFrame returns a
\* handle that is not zero.
NoFrame == 0

ProgressUnits == 3

InitialAnimation ==
    [isPlaying |-> FALSE,
     progress |-> 0,
     loopCount |-> 0,
     speed |-> 2,
     minSpeed |-> 1,
     maxSpeed |-> 3,
     speedStep |-> 1,
     enabled |-> {"slideEnabled"},
     animationFrameId |-> NoFrame,
     frames |-> {},
     nextFrameId |-> 1,
     watchDue |-> 0,
     toggles |-> 0]

\* requestAnimationFrame( animate ): `started` tells whether the loop's
\* oldTimestamp is set.
requestAnimationFrame(an, started) ==
    [an EXCEPT !.frames = @ \cup {[id |-> an.nextFrameId, started |-> started]},
               !.animationFrameId = an.nextFrameId,
               !.nextFrameId = @ + 1]

togglePlay(an) ==
    LET toggled == [an EXCEPT !.isPlaying = ~@]
    IN  IF an.animationFrameId # NoFrame
        THEN [toggled EXCEPT !.frames = {f \in @ : f.id # an.animationFrameId},
                             !.animationFrameId = NoFrame]
        ELSE toggled

resetAnimation(an) == [an EXCEPT !.progress = 0, !.loopCount = 0]

toggleAnimationType(an, toggleKey) ==
    IF toggleKey = Null
    THEN an
    ELSE [an EXCEPT !.enabled = IF toggleKey \in @ THEN @ \ {toggleKey} ELSE @ \cup {toggleKey}]

speedUp(an) ==
    [an EXCEPT !.speed = IF an.maxSpeed < @ + an.speedStep THEN an.maxSpeed ELSE @ + an.speedStep]

slowDown(an) ==
    [an EXCEPT !.speed = IF an.minSpeed > @ - an.speedStep THEN an.minSpeed ELSE @ - an.speedStep]

setupAnimation(an) ==
    IF an.isPlaying THEN requestAnimationFrame(an, FALSE) ELSE an

\* The frame f fires: animate runs. progression is what the time since the
\* loop's last frame amounts to, nothing on the loop's first frame.
animate(an, f, elapsed) ==
    LET fired == [an EXCEPT !.frames = @ \ {f}]
        progression == IF f.started THEN elapsed % ProgressUnits ELSE 0
        sum == an.progress + progression
        moved == IF sum > ProgressUnits
                 THEN [fired EXCEPT !.progress = sum % ProgressUnits, !.loopCount = @ + 1]
                 ELSE [fired EXCEPT !.progress = sum]
    IN  IF ~an.isPlaying THEN fired ELSE requestAnimationFrame(moved, TRUE)

\* ---------------------------------------------------------- the machine

\* A sequence or function written out in full (TLC keeps a constructor unevaluated).
Seq1(n, f) == SubSeq(f, 1, n)
Map1(f) == f @@ <<>>

\* What the board shows: every column's cards, in order, with their fields.
View(st) ==
    Seq1(Len(st.columns),
         [i \in 1..Len(st.columns) |->
            Seq1(Len(st.columns[i].cards),
                 [j \in 1..Len(st.columns[i].cards) |-> st.objects[st.columns[i].cards[j]]])])

\* The card ids of every column, in order.
Order(st) ==
    Seq1(Len(st.columns),
         [i \in 1..Len(st.columns) |->
            Seq1(Len(st.columns[i].cards),
                 [j \in 1..Len(st.columns[i].cards) |->
                    st.objects[st.columns[i].cards[j]].id])])

Range(s) == {s[i] : i \in 1..Len(s)}

\* The card objects of the board, and those the commands of the log hold.
CardsOnBoard(st) == UNION {Range(st.columns[i].cards) : i \in 1..Len(st.columns)}
CardsInHistory(st) ==
    {st.history[i].card : i \in {j \in 1..Len(st.history) :
                                    st.history[j].type \in {"create", "delete"}}}

\* Objects that nothing refers to any more are gone.
Collect(st) ==
    [st EXCEPT !.objects =
        Map1([r \in (CardsOnBoard(st) \cup CardsInHistory(st)) |-> st.objects[r]])]

InitialCards ==
    (Ref("c1", 0) :> Card("c1", <<"A">>, "medium", <<"d">>, Undefined)) @@
    (Ref("c2", 0) :> Card("c2", <<"B">>, "low", Undefined, <<"x">>))

InitialColumns ==
    << [id |-> ColumnIds[1], cards |-> <<Ref("c1", 0), Ref("c2", 0)>>],
       [id |-> ColumnIds[2], cards |-> <<>>],
       [id |-> ColumnIds[3], cards |-> <<>>] >>

InitialContext ==
    [columns |-> InitialColumns,
     objects |-> InitialCards,
     commandSeqId |-> 0,
     generated |-> 0,
     draggedCardId |-> Null,
     sourceColumnId |-> Null,
     dropTargetColumnId |-> Null,
     dropTargetCardId |-> Null,
     dropPosition |-> "before",
     editingCardId |-> Null,
     editTitle |-> <<>>,
     editPriority |-> "medium",
     editDescription |-> <<>>,
     editAssignee |-> <<>>,
     history |-> <<>>,
     historyIndex |-> -1,
     newCardModalOpen |-> FALSE,
     newCardColumnId |-> Null,
     newCardTitle |-> <<>>,
     newCardPriority |-> "medium",
     newCardDescription |-> <<>>,
     newCardAssignee |-> <<>>]

\* The widgets beside the board, as the page loads them.
InitialPage ==
    [liveSearch |-> InitialLiveSearch,
     dragDrop |-> InitialDragDrop,
     dragDropEvent |-> [name |-> "init", prior |-> InitialDragDrop],
     todoList |-> InitialTodoList,
     todoListEvent |-> [name |-> "init", prior |-> InitialTodoList],
     formWizard |-> InitialFormWizard,
     animation |-> InitialAnimation]

Init ==
    /\ kanban = InitialContext
    /\ before = <<>>
    /\ quota = MaxCommands
    /\ page = InitialPage

\* `before` follows pushCommand: the branch after the index is dropped, the board
\* the handler found is appended, the oldest entries leave with their commands.
Recorded(st, snapshots) ==
    SliceLast(Append(SubSeq(snapshots, 1, st.historyIndex + 1), View(st)),
              MAX_HISTORY_SIZE)

\* One handler ran and left the state `next`.
Step(next) ==
    LET pushes == next.commandSeqId # kanban.commandSeqId
    IN  /\ pushes => quota > 0
        /\ next.generated <= MaxNewCards
        /\ kanban' = Collect(next)
        /\ before' = IF pushes THEN Recorded(kanban, before) ELSE before
        /\ quota' = IF pushes THEN quota - 1 ELSE quota
        /\ UNCHANGED page

\* What the user can type.
TitleInputs == {<<"Z">>}
PriorityInputs == {"high"}
TextInputs == {<<>>, <<"e">>}
Positions == {"before", "after"}
Keys == {"ctrl+z", "ctrl+shift+Z", "Escape", "n"}

BoardCards == CardsOnBoard(kanban)
BoardCardIds == {kanban.objects[r].id : r \in BoardCards}
BoardColumnIds == {kanban.columns[i].id : i \in 1..Len(kanban.columns)}

DragStart == \E id \in BoardCardIds : Step(handleDragStart(kanban, id))
DragOver == \E c \in BoardColumnIds : Step(handleDragOver(kanban, c))
CardDragOver ==
    \E id \in BoardCardIds, p \in Positions : Step(handleCardDragOver(kanban, id, p))
CardDragLeave == \E id \in BoardCardIds : Step(handleCardDragLeave(kanban, id))
DropOnColumn == \E c \in BoardColumnIds : Step(handleDropOnColumn(kanban, c))
DragEnd == Step(handleDragEnd(kanban))

OpenNewCardModal == \E c \in BoardColumnIds : Step(initNewCardModal(kanban, c))
CloseNewCardModal == Step(resetNewCardModal(kanban))
SetNewCardTitle ==
    /\ kanban.newCardModalOpen
    /\ \E v \in TitleInputs : Step([kanban EXCEPT !.newCardTitle = v])
SetNewCardPriority ==
    /\ kanban.newCardModalOpen
    /\ \E v \in PriorityInputs : Step([kanban EXCEPT !.newCardPriority = v])
SetNewCardDescription ==
    /\ kanban.newCardModalOpen
    /\ \E v \in TextInputs : Step([kanban EXCEPT !.newCardDescription = v])
SetNewCardAssignee ==
    /\ kanban.newCardModalOpen
    /\ \E v \in TextInputs : Step([kanban EXCEPT !.newCardAssignee = v])
CreateCard == kanban.newCardModalOpen /\ Step(createCard(kanban))

EditCard == \E r \in BoardCards : Step(editCard(kanban, r))
SetEditTitle ==
    /\ kanban.editingCardId # Null
    /\ \E v \in TitleInputs : Step([kanban EXCEPT !.editTitle = v])
SetEditPriority ==
    /\ kanban.editingCardId # Null
    /\ \E v \in PriorityInputs : Step([kanban EXCEPT !.editPriority = v])
SetEditDescription ==
    /\ kanban.editingCardId # Null
    /\ \E v \in TextInputs : Step([kanban EXCEPT !.editDescription = v])
SetEditAssignee ==
    /\ kanban.editingCardId # Null
    /\ \E v \in TextInputs : Step([kanban EXCEPT !.editAssignee = v])
SaveEdit == Step(performEdit(kanban))
CancelEdit == Step(cancelEdit(kanban))
DeleteCard == \E r \in BoardCards : Step(deleteCard(kanban, r))

Undo == Step(performUndo(kanban))
Redo == Step(performRedo(kanban))
JumpToRevision ==
    \E i \in 1..Len(kanban.history) : Step(jumpToRevision(kanban, kanban.history[i].seqId))
ResetToInitial == Step(resetToInitial(kanban))
GlobalKeydown == \E key \in Keys : Step(handleGlobalKeydown(kanban, key))

\* One gesture at a time: a drag, the new-card dialog and the inline edit form
\* each hold the pointer or the focus until they end.
Dragging == kanban.draggedCardId # Null
ModalOpen == kanban.newCardModalOpen
Editing == kanban.editingCardId # Null
Idle == ~Dragging /\ ~ModalOpen /\ ~Editing

\* The board in use: card drags, the new-card dialog, inline edits, deletions and
\* the history controls.
Next ==
    \/ Idle /\ DragStart
    \/ Dragging /\ CardDragOver
    \/ Dragging /\ DropOnColumn
    \/ Dragging /\ DragEnd
    \/ Idle /\ OpenNewCardModal
    \/ ModalOpen /\ CloseNewCardModal
    \/ ModalOpen /\ SetNewCardTitle
    \/ ModalOpen /\ CreateCard
    \/ Idle /\ EditCard
    \/ Editing /\ SetEditTitle
    \/ Editing /\ SaveEdit
    \/ Editing /\ CancelEdit
    \/ Idle /\ DeleteCard
    \/ Idle /\ Undo
    \/ Idle /\ Redo
    \/ Idle /\ JumpToRevision
    \/ Idle /\ ResetToInitial

Spec == Init /\ [][Next]_vars

\* ------------------------------------------------- a log that is full
\* The same board in a long session. The user first records one command after
\* the other in a fixed round of drags and edits (each one event at a time,
\* through the handlers), until the log is about to overflow or has overflowed;
\* from there on the user walks the log with the history controls.

\* What is dragged where, or which card is retitled, command after command.
Round ==
    << [kind |-> "drag", card |-> "c1", over |-> Null, position |-> "before", column |-> "doing"],
       [kind |-> "drag", card |-> "c2", over |-> "c1", position |-> "before", column |-> "doing"],
       [kind |-> "drag", card |-> "c2", over |-> "c1", position |-> "after", column |-> "doing"],
       [kind |-> "edit", card |-> "c2", title |-> <<"Z">>],
       [kind |-> "drag", card |-> "c1", over |-> Null, position |-> "before", column |-> "done"],
       [kind |-> "drag", card |-> "c2", over |-> Null, position |-> "before", column |-> "todo"],
       [kind |-> "drag", card |-> "c1", over |-> "c2", position |-> "after", column |-> "todo"],
       [kind |-> "edit", card |-> "c2", title |-> <<"B">>] >>

\* The event the round sends next in state st.
RoundEvent(st) ==
    LET step == Round[(st.commandSeqId % Len(Round)) + 1]
    IN  IF step.kind = "drag"
        THEN IF st.draggedCardId = Null
             THEN handleDragStart(st, step.card)
             ELSE IF step.over # Null
                     /\ (st.dropTargetCardId # step.over \/ st.dropPosition # step.position)
             THEN handleCardDragOver(st, step.over, step.position)
             ELSE handleDropOnColumn(st, step.column)
        ELSE IF st.editingCardId = Null
             THEN LET location == findCardLocation(Doc(st), step.card)
                  IN  editCard(st, st.columns[location.column].cards[location.index + 1])
             ELSE IF st.editTitle # step.title
             THEN [st EXCEPT !.editTitle = step.title]
             ELSE performEdit(st)

\* Commands the round records past the capacity of the log.
MaxOverflow == 2

InitFull ==
    /\ kanban = InitialContext
    /\ before = <<>>
    /\ quota \in (MAX_HISTORY_SIZE - 1)..(MAX_HISTORY_SIZE + MaxOverflow)
    /\ page = InitialPage

InRound == quota > 0
RoundStep == InRound /\ Step(RoundEvent(kanban))

NextFull ==
    \/ RoundStep
    \/ ~InRound /\ Undo
    \/ ~InRound /\ Redo
    \/ ~InRound /\ JumpToRevision
    \/ ~InRound /\ ResetToInitial

SpecFull == InitFull /\ [][NextFull]_vars

\* ------------------------------------------------- the drag session alone
\* Drag events in any order the browser can send them. A drag that starts
\* outside the board (a file, a selection of text) sends dragover and drop to the
\* columns without any dragstart or dragend on a card.

NextDrag ==
    \/ Idle /\ DragStart
    \/ DragOver
    \/ CardDragOver
    \/ CardDragLeave
    \/ DropOnColumn
    \/ Dragging /\ DragEnd

SpecDrag == Init /\ [][NextDrag]_vars

\* ------------------------------------------------- the log and its controls
\* Whole drags and deletions, each recording one command, between uses of the
\* history controls: long enough a run to record on top of a log that was rewound.

MaxLogCommands == 3

InitLog ==
    /\ kanban = InitialContext
    /\ before = <<>>
    /\ quota = MaxLogCommands
    /\ page = InitialPage

NextLog ==
    \/ Idle /\ DragStart
    \/ Dragging /\ DropOnColumn
    \/ Dragging /\ DragEnd
    \/ Idle /\ DeleteCard
    \/ Idle /\ Undo
    \/ Idle /\ Redo
    \/ Idle /\ JumpToRevision
    \/ Idle /\ ResetToInitial

SpecLog == InitLog /\ [][NextLog]_vars

\* ------------------------------------------------------------ properties

\* What one user gesture leaves behind, from a state in which no gesture is open.
Hovers(st) ==
    {st} \cup {handleCardDragOver(st, st.objects[r].id, p) :
                    r \in CardsOnBoard(st), p \in Positions}
DropsOf(st, cardId) ==
    {handleDropOnColumn(hover, st.columns[c].id) :
        hover \in Hovers(handleDragStart(st, cardId)), c \in 1..Len(st.columns)}
Drops(st) == UNION {DropsOf(st, st.objects[r].id) : r \in CardsOnBoard(st)}
Creates(st) ==
    {createCard([initNewCardModal(st, st.columns[c].id) EXCEPT !.newCardTitle = t]) :
        c \in 1..Len(st.columns), t \in TitleInputs}
Edits(st) ==
    {performEdit([editCard(st, r) EXCEPT !.editTitle = t, !.editDescription = d]) :
        r \in CardsOnBoard(st), t \in TitleInputs, d \in TextInputs}
Deletes(st) == {deleteCard(st, r) : r \in CardsOnBoard(st)}

\* The gestures that recorded a command, each with the command on top of the log.
Recordings(st) ==
    {next \in Drops(st) \cup Creates(st) \cup Edits(st) \cup Deletes(st) :
        next.commandSeqId # st.commandSeqId}
LastCommand(st) == st.history[Len(st.history)]

\* The board a recorded gesture started from, with the objects the gesture made.
DocBefore(st, next) == [columns |-> st.columns, objects |-> st.objects @@ next.objects]

\* C1: for each command a gesture records (a move within or across columns, a
\* create, an edit, a delete), executeCommand followed by reverseCommand with the
\* same command, on the board the gesture started from, leaves every column's
\* card sequence and every card's fields as they were.
C1_RoundTrip ==
    Idle =>
        \A next \in Recordings(kanban) :
            LET command == LastCommand(next)
                doc == DocBefore(kanban, next)
            IN  View(reverseCommand(executeCommand(doc, command), command)) = View(doc)

MoveKinds(st) ==
    {LastCommand(next).from.columnId = LastCommand(next).to.columnId :
        next \in {n \in Recordings(st) : LastCommand(n).type = "move"}}

C1_Witness ==
    /\ Idle
    /\ canRedo(kanban)
    /\ {LastCommand(next).type : next \in Recordings(kanban)} =
            {"move", "create", "edit", "delete"}
    /\ MoveKinds(kanban) = {TRUE, FALSE}

\* C2: for every command recorded by a gesture (handleDropOnColumn, createCard,
\* performEdit, deleteCard), undo immediately followed by redo yields the board
\* the gesture produced: the same card order in every column, a reorder within
\* one column included.
C2_RedoReproducesAction ==
    Idle =>
        \A next \in Recordings(kanban) :
            Order(performRedo(performUndo(next))) = Order(next)

\* C3: in every reachable state -1 <= historyIndex <= history.length - 1.
C3_IndexInRange ==
    /\ -1 <= kanban.historyIndex
    /\ kanban.historyIndex <= Len(kanban.history) - 1

C3_Witness ==
    /\ kanban.historyIndex = -1
    /\ Len(kanban.history) > 1

\* The step recorded a command.
Pushed == kanban'.commandSeqId # kanban.commandSeqId

\* The states the history controls can rewind to from st.
Rewinds(st) ==
    {performUndo(st), resetToInitial(st)} \cup
    {jumpToRevision(st, st.history[i].seqId) : i \in 1..(st.historyIndex + 1)}

\* What a push below the top of the log does: the entries after the old index
\* are gone, the new command is the last entry and the index points at it.
DiscardsRedoBranch ==
    (Pushed /\ canRedo(kanban)) =>
        /\ SubSeq(kanban'.history, 1, Len(kanban'.history) - 1) =
                SubSeq(kanban.history, 1, kanban.historyIndex + 1)
        /\ LastCommand(kanban').seqId = kanban'.commandSeqId
        /\ kanban'.historyIndex = Len(kanban'.history) - 1
        /\ ~canRedo(kanban')

\* The command on top of the log is the last one recorded, and it was recorded
\* below the top: the command recorded just before it is not its predecessor.
OnDiscardedBranch(st) ==
    /\ st.history # <<>>
    /\ st.historyIndex = Len(st.history) - 1
    /\ LastCommand(st).seqId = st.commandSeqId
    /\ IF Len(st.history) = 1
       THEN LastCommand(st).seqId > 1
       ELSE st.history[Len(st.history) - 1].seqId # LastCommand(st).seqId - 1

\* C6: a command pushed while historyIndex < history.length - 1 discards the
\* redo branch, and from then on redo stays impossible until the history is
\* rewound: by an undo, by resetToInitial or by jumpToRevision to an earlier
\* revision.
C6_PushDiscardsRedo ==
    [][ /\ DiscardsRedoBranch
        /\ (~canRedo(kanban) /\ canRedo(kanban')) =>
                kanban' \in {Collect(back) : back \in Rewinds(kanban)} ]_vars

\* C6 as stated: after such a push redo stays impossible until an undo happens.
C6_UntilUndo ==
    [][ /\ DiscardsRedoBranch
        /\ (OnDiscardedBranch(kanban) /\ canRedo(kanban')) =>
                kanban' = Collect(performUndo(kanban)) ]_vars

\* A command was recorded in place of an undone one, on top of an older one.
C6_Witness ==
    /\ OnDiscardedBranch(kanban)
    /\ Len(kanban.history) > 1

\* C7: undo at historyIndex = -1 and redo at historyIndex = history.length - 1,
\* from the buttons or from the keyboard, change nothing: not the columns, not
\* the log, not the index.
C7_NoOpAtEnds ==
    /\ kanban.historyIndex = -1 =>
            /\ performUndo(kanban) = kanban
            /\ handleGlobalKeydown(kanban, "ctrl+z") = kanban
    /\ kanban.historyIndex = Len(kanban.history) - 1 =>
            /\ performRedo(kanban) = kanban
            /\ handleGlobalKeydown(kanban, "ctrl+shift+Z") = kanban

C7_Witness ==
    /\ kanban.historyIndex = -1
    /\ kanban.history # <<>>
    /\ View(kanban) = View(InitialContext)

\* C8: a card dragged from index i of column S and dropped into another column
\* D, at any position, is back at index i of S after one undo; every column
\* has its cards in the order before the drop, historyIndex is one less and the
\* log is the one the drop left.
C8_UndoOfCrossColumnDrop ==
    Idle =>
        \A r \in CardsOnBoard(kanban) :
            \A next \in DropsOf(kanban, kanban.objects[r].id) :
                LET undone == performUndo(next)
                IN  (/\ next.commandSeqId # kanban.commandSeqId
                     /\ LastCommand(next).to.columnId # LastCommand(next).from.columnId) =>
                        /\ findCardLocation(Doc(undone), kanban.objects[r].id) =
                                findCardLocation(Doc(kanban), kanban.objects[r].id)
                        /\ Order(undone) = Order(kanban)
                        /\ undone.historyIndex = next.historyIndex - 1
                        /\ undone.history = next.history

\* A drop into another column has just been undone.
C8_Witness ==
    /\ Idle
    /\ canRedo(kanban)
    /\ LET command == kanban.history[kanban.historyIndex + 2]
       IN  /\ command.type = "move"
           /\ command.from.columnId # command.to.columnId
           /\ findCardLocation(Doc(kanban), command.cardId).index = command.from.index
           /\ kanban.columns[findCardLocation(Doc(kanban), command.cardId).column].id =
                    command.from.columnId

\* undo, or redo, n times in a row
RECURSIVE UndoTimes(_, _)
UndoTimes(st, n) ==
    IF n = 0 THEN st
    ELSE LET undone == performUndo(st)
         IN  IF undone.columns = <<>> THEN undone ELSE UndoTimes(undone, n - 1)

RECURSIVE RedoTimes(_, _)
RedoTimes(st, n) ==
    IF n = 0 THEN st
    ELSE LET redone == performRedo(st)
         IN  IF redone.columns = <<>> THEN redone ELSE RedoTimes(redone, n - 1)

\* The command the round records as its k-th.
InRoundOrder(command) ==
    LET step == Round[((command.seqId - 1) % Len(Round)) + 1]
    IN  IF step.kind = "drag"
        THEN command.type = "move" /\ command.cardId = step.card
                /\ command.to.columnId = step.column
        ELSE command.type = "edit" /\ command.cardId = step.card
                /\ command.newValues.title = step.title

\* C4: the log never holds more than MAX_HISTORY_SIZE commands; after
\* MAX_HISTORY_SIZE + k commands pushed in a row it holds the most recent
\* MAX_HISTORY_SIZE of them, in push order, and historyIndex points at the last.
C4_RingBuffer ==
    LET length == Len(kanban.history)
    IN  /\ length <= MAX_HISTORY_SIZE
        /\ length = IF kanban.commandSeqId < MAX_HISTORY_SIZE
                    THEN kanban.commandSeqId ELSE MAX_HISTORY_SIZE
        /\ \A i \in 1..length :
                /\ kanban.history[i].seqId = kanban.commandSeqId - length + i
                /\ InRoundOrder(kanban.history[i])
        /\ InRound => kanban.historyIndex = length - 1

\* The round has pushed more commands than the log holds and is still pushing.
C4_Witness ==
    /\ InRound
    /\ kanban.commandSeqId > MAX_HISTORY_SIZE
    /\ Len(kanban.history) = MAX_HISTORY_SIZE

\* C5: once the log has overflowed, MAX_HISTORY_SIZE undos from the top of the
\* log end at historyIndex = -1 with the board as it was just before the oldest
\* retained command, and one more undo changes nothing.
C5_UndoToOldestRetained ==
    (kanban.commandSeqId > MAX_HISTORY_SIZE /\ ~canRedo(kanban)) =>
        LET oldest == UndoTimes(kanban, MAX_HISTORY_SIZE)
        IN  /\ oldest.historyIndex = -1
            /\ View(oldest) = before[1]
            /\ performUndo(oldest) = oldest

\* The walk down an overflowed log has arrived: the board is the one before the
\* oldest retained command, which is not the board the session started with.
C5_Witness ==
    /\ kanban.commandSeqId > MAX_HISTORY_SIZE
    /\ kanban.historyIndex = -1
    /\ View(kanban) = before[1]
    /\ View(kanban) # View(InitialContext)

\* C9: jumpToRevision to the command at log position t leaves historyIndex = t
\* and the state that historyIndex - t undos (t behind the index) or
\* t - historyIndex redos (t ahead of it) leave; a jump to the current revision
\* changes nothing.
C9_JumpIsRepeatedUndoRedo ==
    \A i \in 1..Len(kanban.history) :
        LET t == i - 1
            jumped == jumpToRevision(kanban, kanban.history[i].seqId)
        IN  /\ jumped.historyIndex = t
            /\ t < kanban.historyIndex =>
                    jumped = UndoTimes(kanban, kanban.historyIndex - t)
            /\ t > kanban.historyIndex =>
                    jumped = RedoTimes(kanban, t - kanban.historyIndex)
            /\ t = kanban.historyIndex => jumped = kanban

\* In the middle of a full log: revisions several commands behind and ahead.
C9_Witness ==
    /\ ~InRound
    /\ Len(kanban.history) = MAX_HISTORY_SIZE
    /\ kanban.historyIndex > 2
    /\ kanban.historyIndex < Len(kanban.history) - 3
    /\ View(kanban) = before[kanban.historyIndex + 2]

DragSessionEmpty(st) ==
    /\ st.draggedCardId = Null
    /\ st.sourceColumnId = Null
    /\ st.dropTargetColumnId = Null
    /\ st.dropTargetCardId = Null

\* C10: after handleDropOnColumn or handleDragEnd returns, on every path,
\* draggedCardId, sourceColumnId, dropTargetColumnId and dropTargetCardId are
\* all null.
C10_DragSessionReset ==
    /\ DragSessionEmpty(handleDragEnd(kanban))
    /\ \A c \in 1..Len(kanban.columns) :
            DragSessionEmpty(handleDropOnColumn(kanban, kanban.columns[c].id))

\* ------------------------------------------------- live search, running
\* The user types, uses the keyboard and the mouse while searches are in
\* flight; a suspended invocation goes on whenever the scheduler or the network
\* lets it, in any order.

MaxSearches == 3

QueryInputs == {<<>>, <<"r", "e">>, <<"S", "Q">>}

\* One handler or one resumption of the live search ran and left `next`.
SearchStep(next) ==
    /\ page' = [page EXCEPT !.liveSearch = next]
    /\ UNCHANGED <<kanban, before, quota>>

Suspended(pc) == {i \in 1..Len(page.liveSearch.tasks) : page.liveSearch.tasks[i].pc = pc}

InitSearch ==
    /\ kanban = InitialContext
    /\ before = <<>>
    /\ quota = 0
    /\ page = InitialPage

\* updateQuery is invoked; an invocation goes on after splitTask; its search
\* resolves (simulateSearch as written always does); handleKeydown;
\* selectResult on a row; focusInput; closeOnOutsideClick.
NextSearch ==
    \/ /\ Len(page.liveSearch.tasks) < MaxSearches
       /\ \E q \in QueryInputs : SearchStep(updateQuery(page.liveSearch, q))
    \/ \E i \in Suspended("splitTask") : SearchStep(afterSplitTask(page.liveSearch, i))
    \/ \E i \in Suspended("search") : SearchStep(searchResolved(page.liveSearch, i))
    \/ \E key \in {"ArrowDown", "ArrowUp", "Enter", "Escape"} :
            SearchStep(handleKeydown(page.liveSearch, key))
    \/ \E k \in 1..Len(page.liveSearch.results) :
            SearchStep(selectResult(page.liveSearch, page.liveSearch.results[k]))
    \/ SearchStep(focusInput(page.liveSearch))
    \/ SearchStep(closeOnOutsideClick(page.liveSearch))

SpecSearch == InitSearch /\ [][NextSearch]_vars

\* C11: of two invocations of updateQuery, when the one started later is over
\* before the one started earlier, the earlier one assigns neither results nor
\* isLoading once it goes on.
C11_StaleSearchSuppressed ==
    LET ls == page.liveSearch
    IN  \A a, b \in 1..Len(ls.finished) :
            (a < b /\ ls.finished[a] > ls.finished[b]) =>
                /\ ~ls.tasks[ls.finished[b]].wroteResults
                /\ ~ls.tasks[ls.finished[b]].wroteLoading

\* The visible part of the context.
Shown(ls) ==
    <<ls.query, ls.results, ls.isLoading, ls.selectedIndex, ls.isOpen, ls.recentSearches>>

\* An invocation of updateQuery started after invocation i.
Superseded(ls, i) == i < Len(ls.tasks)

\* C12: every invocation of updateQuery stores, before it suspends or returns,
\* a search id above the one it found, and holds that id; the stored id never
\* goes down; an invocation that goes on after a suspension assigns state only
\* if the stored id is still its own.
C12_SearchIdStamped ==
    [][ LET ls == page.liveSearch
            after == page'.liveSearch
        IN  /\ after.pendingSearchId >= ls.pendingSearchId
            /\ Len(after.tasks) > Len(ls.tasks) =>
                    /\ after.pendingSearchId > ls.pendingSearchId
                    /\ after.tasks[Len(after.tasks)].searchId = after.pendingSearchId
            /\ \A i \in 1..Len(ls.tasks) :
                    (/\ after.tasks[i].pc # ls.tasks[i].pc
                     /\ \/ Shown(after) # Shown(ls)
                        \/ after.tasks[i].wroteResults
                        \/ after.tasks[i].wroteLoading) =>
                        ls.pendingSearchId = ls.tasks[i].searchId ]_vars

\* C13: when the search of an invocation fails, the invocation runs to its
\* end; if no invocation was started after it, results is emptied and
\* isLoading is false; if one was, results and isLoading stay as they are.
C13_FailedSearchHandled ==
    LET ls == page.liveSearch
    IN  \A i \in Suspended("search") :
            LET failed == searchRejected(ls, i)
            IN  /\ failed.tasks[i].pc = "done"
                /\ IF Superseded(ls, i)
                   THEN failed.results = ls.results /\ failed.isLoading = ls.isLoading
                   ELSE failed.results = <<>> /\ failed.isLoading = FALSE

\* C14: the seqIds of the log go up strictly with the position, so the lookup
\* by seqId of jumpToRevision and isCurrentRevision finds the position of the
\* very command selected.
C14_SeqIdsIncrease ==
    LET history == kanban.history
    IN  /\ \A i, j \in 1..Len(history) :
                i < j => history[i].seqId < history[j].seqId
        /\ \A i \in 1..Len(history) :
                /\ FindCommandIndex(history, history[i].seqId) = i - 1
                /\ isCurrentRevision(kanban, history[i]) <=> (i - 1 = kanban.historyIndex)

\* The log holds a command pushed after an undone one was discarded, with an
\* older command before it and the index not on the last entry.
C14_Witness ==
    /\ Len(kanban.history) >= 2
    /\ kanban.history[2].seqId > kanban.history[1].seqId + 1
    /\ kanban.historyIndex = 0

\* What a command of the log holds: its fields, with the fields of the card
\* object it refers to when it is a create or a delete.
Stored(st, command) ==
    IF command.type \in {"create", "delete"}
    THEN [command EXCEPT !.card = st.objects[command.card]]
    ELSE command

\* C15: a command that stays in the log holds after each operation what it held
\* before: the card of a create or a delete, the from and to of a move, the old
\* and new values of an edit.
C15_CommandsImmutable ==
    [][ \A i \in 1..Len(kanban.history), j \in 1..Len(kanban'.history) :
            kanban.history[i].seqId = kanban'.history[j].seqId =>
                Stored(kanban, kanban.history[i]) = Stored(kanban', kanban'.history[j]) ]_vars

\* ------------------------------------------ the drag and drop list, running
\* The user drags rows over one another, drops them or gives up, and uses the
\* move buttons. dragDropEvent keeps the handler that ran last and the context
\* it found.

\* context.item of the row the event is on (wp-each)
DragDropRows == Range(page.dragDrop.items)

DragDropStep(name, next) ==
    /\ page' = [page EXCEPT !.dragDrop = next,
                            !.dragDropEvent = [name |-> name, prior |-> page.dragDrop]]
    /\ UNCHANGED <<kanban, before, quota>>

\* handleDragStart, handleDragOver on a row, handleDragLeave, handleDrop (a drag
\* that started outside the list passes over the rows as well), handleDragEnd
\* of a drag that started on a row, moveUp and moveDown on a row.
NextDragDrop ==
    \/ \E item \in DragDropRows :
            DragDropStep("handleDragStart", dragDropDragStart(page.dragDrop, item))
    \/ \E item \in DragDropRows :
            DragDropStep("handleDragOver", dragDropDragOver(page.dragDrop, item))
    \/ DragDropStep("handleDragLeave", handleDragLeave(page.dragDrop))
    \/ DragDropStep("handleDrop", handleDrop(page.dragDrop))
    \/ /\ page.dragDrop.isDragging
       /\ DragDropStep("handleDragEnd", dragDropDragEnd(page.dragDrop))
    \/ \E item \in DragDropRows : DragDropStep("moveUp", moveUp(page.dragDrop, item))
    \/ \E item \in DragDropRows : DragDropStep("moveDown", moveDown(page.dragDrop, item))

SpecDragDrop == InitSearch /\ [][NextDragDrop]_vars

\* No drag session is left in the context.
DragDropSessionOver(dd) ==
    /\ dd.isDragging = FALSE
    /\ dd.draggedId = Null
    /\ dd.dropTargetId = Null

\* C16: handleDrop and handleDragEnd of the drag and drop list leave isDragging
\* false and draggedId and dropTargetId null, after every drop or drag end that
\* happened and from every context: with a row dragged over another, over
\* itself, over none, or with ids of no row.
C16_DragDropReset ==
    /\ page.dragDropEvent.name \in {"handleDrop", "handleDragEnd"} =>
            DragDropSessionOver(page.dragDrop)
    /\ \A draggedId, dropTargetId \in {item.id : item \in DragDropRows} \cup {Null, "zz"},
           isDragging \in BOOLEAN :
            LET dd == [page.dragDrop EXCEPT !.draggedId = draggedId,
                                            !.dropTargetId = dropTargetId,
                                            !.isDragging = isDragging]
            IN  /\ DragDropSessionOver(handleDrop(dd))
                /\ DragDropSessionOver(dragDropDragEnd(dd))

\* A row was dropped on another one and the list was reordered.
C16_Witness ==
    /\ page.dragDropEvent.name = "handleDrop"
    /\ page.dragDropEvent.prior.isDragging
    /\ page.dragDropEvent.prior.dropTargetId # Null
    /\ page.dragDrop.items # page.dragDropEvent.prior.items
    /\ DragDropSessionOver(page.dragDrop)

\* ------------------------------------------------- the todo list, running
\* The user types into the box, adds, ticks and deletes todos. todoListEvent
\* keeps the handler that ran last and the context it found.

MaxTodos == 3

BuyMilk == <<"B", "u", "y", " ", "m", "i", "l", "k">>
WalkDog == <<"W", "a", "l", "k", " ", "d", "o", "g">>
TodoInputs == {<<>>, <<" ">>, BuyMilk, <<" ">> \o WalkDog \o <<" ">>}

TodoStep(name, next) ==
    /\ page' = [page EXCEPT !.todoList = next,
                            !.todoListEvent = [name |-> name, prior |-> page.todoList]]
    /\ UNCHANGED <<kanban, before, quota>>

\* updateNewTodoText, addTodo, addTodoOnEnter, then toggleTodo and deleteTodo on
\* a row, toggleAll and clearCompleted.
NextTodo ==
    \/ \E value \in TodoInputs :
            TodoStep("updateNewTodoText", updateNewTodoText(page.todoList, value))
    \/ /\ page.todoList.nextId <= MaxTodos
       /\ TodoStep("addTodo", addTodo(page.todoList))
    \/ /\ page.todoList.nextId <= MaxTodos
       /\ \E key \in {"Enter", "a"} :
            TodoStep("addTodoOnEnter", addTodoOnEnter(page.todoList, key))
    \/ \E k \in 1..Len(page.todoList.todos) :
            TodoStep("toggleTodo", toggleTodo(page.todoList, k))
    \/ \E k \in 1..Len(page.todoList.todos) :
            TodoStep("deleteTodo", deleteTodo(page.todoList, page.todoList.todos[k]))
    \/ TodoStep("toggleAll", toggleAll(page.todoList))
    \/ TodoStep("clearCompleted", clearCompleted(page.todoList))

SpecTodo == InitSearch /\ [][NextTodo]_vars

\* The texts of the todos, in order.
TodoTexts(td) == [k \in 1..Len(td.todos) |-> td.todos[k].text]

\* The list after "Buy milk" and "Walk dog" were added to the empty list and
\* "Buy milk" was ticked.
MilkAndDog ==
    toggleTodo(addTodo(updateNewTodoText(
               addTodo(updateNewTodoText(InitialTodoList, BuyMilk)), WalkDog)), 1)

\* C17: addTodo with a text that is not blank leaves the todos there were, in
\* their order, followed by one new todo that is not completed; remainingItems
\* is the number of todos not completed; adding "Buy milk" and "Walk dog" to the
\* empty list and ticking "Buy milk" gives remainingItems = 1 and the order
\* "Buy milk", "Walk dog".
C17_TodoList ==
    LET td == page.todoList
        prior == page.todoListEvent.prior
    IN  /\ (page.todoListEvent.name = "addTodo" /\ Trim(prior.newTodoText) # <<>>) =>
                /\ Len(td.todos) = Len(prior.todos) + 1
                /\ SubSeq(td.todos, 1, Len(prior.todos)) = prior.todos
                /\ td.todos[Len(td.todos)].completed = FALSE
                /\ td.todos[Len(td.todos)].text = Trim(prior.newTodoText)
        /\ remainingItems(td) = Cardinality({k \in 1..Len(td.todos) : td.todos[k].completed = FALSE})
        /\ remainingItems(MilkAndDog) = 1
        /\ TodoTexts(MilkAndDog) = <<BuyMilk, WalkDog>>

\* "Buy milk" and "Walk dog" were added, in this order, to the empty list and
\* "Buy milk" was ticked just now.
C17_Witness ==
    /\ page.todoListEvent.name = "toggleTodo"
    /\ TodoTexts(page.todoList) = <<BuyMilk, WalkDog>>
    /\ page.todoList.todos[1].completed
    /\ ~page.todoList.todos[2].completed
    /\ page.todoList.nextId = 3
    /\ remainingItems(page.todoList) = 1

\* The places of the board, <<column, position>>, and the card id at a place.
Slots(st) ==
    UNION {{<<c, k>> : k \in 1..Len(st.columns[c].cards)} : c \in 1..Len(st.columns)}
IdAt(st, slot) == st.objects[st.columns[slot[1]].cards[slot[2]]].id
BoardIds(st) == {IdAt(st, slot) : slot \in Slots(st)}

C21_EmptiedStaysEmpty ==
    LET ls == page.liveSearch
    IN  (\A i \in 1..Len(ls.tasks) :
            (i > ls.emptiedAt /\ ls.tasks[i].searchId > 0) => ls.tasks[i].pc # "done") =>
                ls.results = <<>>

\* The invocations of updateQuery that started a search.
Searches(ls) == {i \in 1..Len(ls.tasks) : ls.tasks[i].searchId > 0}

\* C22: isLoading is true exactly while the search started last is not over;
\* with every search over, or none started, isLoading is false.
C22_LoadingFollowsLatestSearch ==
    LET ls == page.liveSearch
    IN  ls.isLoading <=>
            \E i \in Searches(ls) :
                /\ \A j \in Searches(ls) : j <= i
                /\ ls.tasks[i].pc # "done"

\* The search started first is over, the one started later is not, and
\* isLoading is still true.
C22_Witness ==
    LET ls == page.liveSearch
    IN  \E i, j \in Searches(ls) :
            /\ i < j
            /\ ls.tasks[i].pc = "done"
            /\ ls.tasks[j].pc # "done"
            /\ ls.isLoading

\* The 1-based place of a card id in a sequence of ids; 0 when it is not there.
PlaceOf(ids, id) ==
    LET hits == {k \in 1..Len(ids) : ids[k] = id}
    IN  IF hits = {} THEN 0 ELSE Min(hits)

\* C23: a drop that records a move leaves the dragged card in the target
\* column: right before the card T the pointer was last over when T is another
\* card of that column and dropPosition is 'before', right after T when it is
\* 'after', and last when no card of that column is the drop target; within
\* one column as across columns.
C23_DropLandsAtTarget ==
    Idle =>
        \A r \in CardsOnBoard(kanban) :
            LET cardId == kanban.objects[r].id
            IN  \A hover \in Hovers(handleDragStart(kanban, cardId)),
                   c \in 1..Len(kanban.columns) :
                    LET next == handleDropOnColumn(hover, kanban.columns[c].id)
                        ids == Order(next)[c]
                        at == PlaceOf(ids, cardId)
                        T == hover.dropTargetCardId
                    IN  next.commandSeqId # kanban.commandSeqId =>
                            /\ at > 0
                            /\ IF T # Null /\ T # cardId /\ PlaceOf(Order(kanban)[c], T) > 0
                               THEN IF hover.dropPosition = "before"
                                    THEN at < Len(ids) /\ ids[at + 1] = T
                                    ELSE at > 1 /\ ids[at - 1] = T
                               ELSE at = Len(ids)

\* A card was dropped further down in its own column, below a card that was
\* below it, and the move is the last thing that happened to the board.
C23_Witness ==
    /\ Idle
    /\ Len(kanban.history) > 0
    /\ kanban.historyIndex = Len(kanban.history) - 1
    /\ LastCommand(kanban).type = "move"
    /\ LastCommand(kanban).from.columnId = LastCommand(kanban).to.columnId
    /\ LastCommand(kanban).to.index > LastCommand(kanban).from.index + 1
    /\ Len(Order(kanban)[1]) = 3

\* The card being dragged is where a drop on its own column would put it: the
\* pointer was last over the card right below it, in the upper half, or over
\* the card right above it, in the lower half, or over no card of the column
\* while the dragged card is the last one.
DropLeavesCardInPlace(st) ==
    LET c == findColumn(st.columns, st.sourceColumnId)
        ids == Order(st)[c]
        at == PlaceOf(ids, st.draggedCardId)
        T == st.dropTargetCardId
        to == IF T = Null THEN 0 ELSE PlaceOf(ids, T)
    IN  /\ at > 0
        /\ IF to > 0 /\ to # at
           THEN IF st.dropPosition = "before" THEN to = at + 1 ELSE to = at - 1
           ELSE to = 0 /\ at = Len(ids)

\* C24: a drop on the source column that would leave the dragged card where it
\* is changes no column and no card, leaves history and historyIndex as they
\* are, and ends the drag session.
C24_DropInPlaceIsNoOp ==
    (Dragging /\ DropLeavesCardInPlace(kanban)) =>
        LET next == handleDropOnColumn(kanban, kanban.sourceColumnId)
        IN  /\ next.columns = kanban.columns
            /\ View(next) = View(kanban)
            /\ next.history = kanban.history
            /\ next.historyIndex = kanban.historyIndex
            /\ next.commandSeqId = kanban.commandSeqId
            /\ DragSessionEmpty(next)

\* A card of a column of three is being dragged over the lower half of the
\* card right above it, with a command in the log already.
C24_Witness ==
    /\ Dragging
    /\ DropLeavesCardInPlace(kanban)
    /\ kanban.dropTargetCardId # Null
    /\ kanban.dropPosition = "after"
    /\ Len(kanban.history) > 0
    /\ Len(kanban.columns[findColumn(kanban.columns, kanban.sourceColumnId)].cards) = 3

\* ------------------------------------------------- the forms of the board
\* The inline edit form and the new-card dialog with everything that can happen
\* while they are open: keyboard shortcuts (undo, redo, Escape, n), a click on
\* another card's edit or delete button, titles typed and blanked, and saves
\* with or without a card being edited.

NextForms ==
    \/ GlobalKeydown
    \/ ~ModalOpen /\ OpenNewCardModal
    \/ /\ ModalOpen
       /\ \E v \in TitleInputs \cup {<<>>, <<" ">>} : Step([kanban EXCEPT !.newCardTitle = v])
    \/ ModalOpen /\ CreateCard
    \/ ~ModalOpen /\ EditCard
    \/ /\ Editing
       /\ \E v \in TitleInputs \cup {<<>>, <<" ">>} : Step([kanban EXCEPT !.editTitle = v])
    \/ ~ModalOpen /\ SaveEdit
    \/ ~ModalOpen /\ DeleteCard

SpecForms == Init /\ [][NextForms]_vars

\* C25: performEdit with a title that is blank once trimmed, with no card being
\* edited, or with an editingCardId that is on no column, only sets
\* editingCardId to null: no card, no column and no part of the log changes.
C25_RejectedEditIsNoOp ==
    (\/ Trim(kanban.editTitle) = <<>>
     \/ kanban.editingCardId = Null
     \/ kanban.editingCardId \notin BoardIds(kanban)) =>
        performEdit(kanban) = [kanban EXCEPT !.editingCardId = Null]

\* The card being edited, with a title typed, has left the board (deleted, or
\* its creation undone) while the form was open.
C25_Witness ==
    /\ kanban.editingCardId # Null
    /\ kanban.editingCardId \notin BoardIds(kanban)
    /\ Trim(kanban.editTitle) # <<>>
    /\ Len(kanban.history) > 0

\* C26: createCard with a title that is blank once trimmed or with no target
\* column id changes nothing; with a target column id that no column has, it
\* adds no card, records no command and resets the dialog; otherwise the target
\* column holds its cards followed by one new card, the other columns are as
\* they were, one Create command for that card is on top of the log with the
\* index on it, and the dialog is closed.
C26_CreateCard ==
    \A columnId \in {kanban.newCardColumnId, "gone"} :
        LET st == [kanban EXCEPT !.newCardColumnId = columnId]
            next == createCard(st)
            c == findColumn(st.columns, columnId)
        IN  IF Trim(st.newCardTitle) = <<>> \/ columnId = Null
            THEN next = st
            ELSE IF columnId \notin BoardColumnIds
            THEN /\ View(next) = View(st)
                 /\ next.history = st.history
                 /\ next.historyIndex = st.historyIndex
                 /\ next.commandSeqId = st.commandSeqId
                 /\ ~next.newCardModalOpen
                 /\ next.newCardColumnId = Null
                 /\ next.newCardTitle = <<>>
            ELSE /\ Len(View(next)[c]) = Len(View(st)[c]) + 1
                 /\ SubSeq(View(next)[c], 1, Len(View(st)[c])) = View(st)[c]
                 /\ \A other \in 1..Len(st.columns) :
                        other # c => View(next)[other] = View(st)[other]
                 /\ LET card == View(next)[c][Len(View(next)[c])]
                    IN  /\ card.id \notin BoardIds(st)
                        /\ card.title = Trim(st.newCardTitle)
                        /\ LastCommand(next).type = "create"
                        /\ next.objects[LastCommand(next).card] = card
                        /\ LastCommand(next).columnId = columnId
                 /\ SubSeq(next.history, 1, Len(next.history) - 1) =
                        SubSeq(st.history, 1, st.historyIndex + 1)
                 /\ next.historyIndex = Len(next.history) - 1
                 /\ next.commandSeqId = st.commandSeqId + 1
                 /\ ~next.newCardModalOpen

\* A card was just created at the end of a column that held cards, on top of
\* a log that had been rewound, and the dialog is closed.
C26_Witness ==
    /\ ~ModalOpen
    /\ Len(kanban.history) > 0
    /\ kanban.historyIndex = Len(kanban.history) - 1
    /\ LastCommand(kanban).type = "create"
    /\ LET c == findColumn(kanban.columns, LastCommand(kanban).columnId)
       IN  /\ Len(kanban.columns[c].cards) > 1
           /\ kanban.columns[c].cards[Len(kanban.columns[c].cards)] = LastCommand(kanban).card
    /\ kanban.commandSeqId = 2
    /\ Len(kanban.history) = 1

\* C27: resetToInitial leaves what undo leaves when repeated until
\* historyIndex = -1: the index is -1, the log holds the commands it held, each
\* of them can be redone, and the board is the one from before the oldest
\* command of the log.
C27_ResetIsRepeatedUndo ==
    Idle =>
        LET reset == resetToInitial(kanban)
            length == Len(kanban.history)
        IN  /\ reset = UndoTimes(kanban, kanban.historyIndex + 1)
            /\ reset.historyIndex = -1
            /\ reset.history = kanban.history
            /\ \A n \in 1..length : RedoTimes(reset, n).historyIndex = n - 1
            /\ length > 0 => View(reset) = before[1]

\* resetToInitial has just rewound a log of two commands recorded on top of a
\* discarded one.
C27_Witness ==
    /\ Idle
    /\ kanban.historyIndex = -1
    /\ Len(kanban.history) = 2
    /\ View(kanban) = before[1]
    /\ View(kanban) = View(InitialContext)
    /\ kanban.history[1].type = "delete"
    /\ kanban.history[2].type = "move"
    /\ kanban.history[1].seqId = 2

\* C28: selectedIndex is -1 or the index of one of the results.
C28_SelectedIndexInRange ==
    LET ls == page.liveSearch
    IN  \/ ls.selectedIndex = -1
        \/ 0 <= ls.selectedIndex /\ ls.selectedIndex < Len(ls.results)


\* ------------------------------------------------- the form wizard, running
\* The user fills the fields, moves between the steps and submits; a suspended
\* submitForm goes on when the scheduler resumes it and when its timer fires.
\* Resumptions and timers of equal delay run in the order they were queued.

MaxSubmits == 2

NameInputs == {<<>>, <<"A">>, <<"A", "l">>}
EmailInputs == {<<>>, <<"a", "@", "b">>, <<"A", "@", "b", ".", "c">>}

WizardStep(next) ==
    /\ page' = [page EXCEPT !.formWizard = next]
    /\ UNCHANGED <<kanban, before, quota>>

\* The invocations of submitForm suspended at pc that are next in line there.
NextInLine(pc) ==
    LET tasks == page.formWizard.tasks
    IN  {i \in 1..Len(tasks) :
            /\ tasks[i].pc = pc
            /\ \A j \in 1..(i - 1) :
                    tasks[j].pc = "done" \/ (pc = "splitTask" /\ tasks[j].pc = "timer")}

SubmitForm ==
    /\ Len(page.formWizard.tasks) < MaxSubmits
    /\ isStepValid(page.formWizard)
    /\ WizardStep(submitForm(page.formWizard))

SubmitResumes ==
    \/ \E i \in NextInLine("splitTask") : WizardStep(submitAfterSplitTask(page.formWizard, i))
    \/ \E i \in NextInLine("timer") : WizardStep(submitResolved(page.formWizard, i))

\* updateField on each input, nextStep, handleEnter, prevStep, submitForm, the
\* resumptions of submitForm, focusWhenVisible.
NextWizard ==
    \/ \E value \in NameInputs : WizardStep(updateField(page.formWizard, "name", value))
    \/ \E value \in EmailInputs : WizardStep(updateField(page.formWizard, "email", value))
    \/ \E field \in {"phone", "message"} :
            WizardStep(updateField(page.formWizard, field, <<"5">>))
    \/ WizardStep(nextStep(page.formWizard))
    \/ \E key \in {"Enter", "a"} : WizardStep(handleEnter(page.formWizard, key))
    \/ WizardStep(prevStep(page.formWizard))
    \/ SubmitForm
    \/ SubmitResumes
    \/ WizardStep(focusWhenVisible(page.formWizard))

SpecWizard == InitSearch /\ [][NextWizard]_vars

\* A suspended submitForm is resumed, and its timer fires.
SpecWizardFair == SpecWizard /\ WF_vars(SubmitResumes)

InFlight(fw) == {i \in 1..Len(fw.tasks) : fw.tasks[i].pc # "done"}

\* C29: submission is not re-entrant: isSubmitting is true whenever an
\* invocation of submitForm is suspended, at most one invocation is suspended
\* at a time, and submitForm invoked while isSubmitting is true starts none.
C29_SubmitNotReentrant ==
    LET fw == page.formWizard
    IN  /\ InFlight(fw) # {} => fw.isSubmitting
        /\ Cardinality(InFlight(fw)) <= 1
        /\ fw.isSubmitting => submitForm(fw).tasks = fw.tasks

\* C30: submitForm invoked on an invalid step changes nothing; invoked on a
\* valid step it has set isSubmitting when it is suspended for the first time;
\* the step that follows its timer sets isSubmitting to false and isComplete to
\* true, and every invocation that was suspended gets there.
C30_SubmitRunsToCompletion ==
    /\ [](LET fw == page.formWizard
              started == submitForm(fw)
          IN  /\ ~isStepValid(fw) => started = fw
              /\ isStepValid(fw) =>
                    /\ started.isSubmitting
                    /\ Len(started.tasks) = Len(fw.tasks) + 1
                    /\ started.tasks[Len(started.tasks)].pc = "splitTask")
    /\ [][\A i \in 1..Len(page.formWizard.tasks) :
            (page.formWizard.tasks[i].pc = "timer" /\ page'.formWizard.tasks[i].pc = "done") =>
                ~page'.formWizard.isSubmitting /\ page'.formWizard.isComplete]_vars
    /\ \A i \in 1..MaxSubmits :
            (Len(page.formWizard.tasks) >= i) ~>
                (/\ Len(page.formWizard.tasks) >= i
                 /\ page.formWizard.tasks[i].pc = "done"
                 /\ page.formWizard.isComplete)

C30_Witness ==
    LET fw == page.formWizard
    IN  /\ Len(fw.tasks) = 1
        /\ fw.tasks[1].pc = "done"
        /\ fw.currentStep = 3
        /\ fw.isComplete
        /\ ~fw.isSubmitting

\* C31: currentStep increases only in a state where the current step is valid.
C31_ForwardOnlyWhenValid ==
    [][page'.formWizard.currentStep > page.formWizard.currentStep =>
            isStepValid(page.formWizard)]_vars

\* C32: currentStep stays within 1..totalSteps; nextStep at the last step and
\* prevStep at step 1 leave currentStep unchanged.
C32_StepInRange ==
    LET fw == page.formWizard
    IN  /\ 1 <= fw.currentStep /\ fw.currentStep <= fw.totalSteps
        /\ 1 <= nextStep(fw).currentStep /\ nextStep(fw).currentStep <= fw.totalSteps
        /\ 1 <= prevStep(fw).currentStep /\ prevStep(fw).currentStep <= fw.totalSteps
        /\ \A key \in {"Enter", "a"} :
                /\ 1 <= handleEnter(fw, key).currentStep
                /\ handleEnter(fw, key).currentStep <= fw.totalSteps
        /\ fw.currentStep = fw.totalSteps => nextStep(fw).currentStep = fw.currentStep
        /\ fw.currentStep = 1 => prevStep(fw).currentStep = fw.currentStep

\* The wizard went to the last step and came back to the first.
C32_Witness ==
    LET fw == page.formWizard
    IN  /\ fw.currentStep = 1
        /\ fw.needsFocus
        /\ fw.isComplete

FieldNames == {"name", "email", "phone", "message"}

\* C33: after updateField for field f with value v the errors hold an entry for
\* f exactly when f is name or email and v fails its validation; the entries of
\* the other fields are unchanged; without a fieldName nothing changes.
C33_UpdateFieldErrors ==
    LET fw == page.formWizard
    IN  /\ \A value \in NameInputs \cup EmailInputs \cup {<<"5">>} :
            /\ updateField(fw, Null, value) = fw
            /\ \A f \in FieldNames :
                LET next == updateField(fw, f, value)
                IN  /\ f \in DOMAIN next.errors <=>
                            \/ f = "name" /\ ~isValidName(value)
                            \/ f = "email" /\ ~isValidEmail(value)
                    /\ \A g \in FieldNames \ {f} :
                            /\ g \in DOMAIN next.errors <=> g \in DOMAIN fw.errors
                            /\ g \in DOMAIN fw.errors => next.errors[g] = fw.errors[g]

\* The name was in error and was corrected while the address still is.
C33_Witness ==
    LET fw == page.formWizard
    IN  /\ DOMAIN fw.errors = {"email"}
        /\ isValidName(fw.name)
        /\ fw.email = <<"a", "@", "b">>
        /\ fw.currentStep = 2

\* ------------------------------------------------- the animation, running
\* The user plays and pauses, resets, changes the speed and the kinds of
\* animation; a frame that was requested fires; the watch callback runs again
\* after isPlaying changed, once for each change or once for several.

MaxToggles == 4
MaxFrames == 4

AnimationStep(next) ==
    /\ page' = [page EXCEPT !.animation = next]
    /\ UNCHANGED <<kanban, before, quota>>

NextAnimation ==
    \/ /\ page.animation.toggles < MaxToggles
       /\ \E due \in {page.animation.watchDue + 1, 1} :
            AnimationStep([togglePlay(page.animation) EXCEPT !.watchDue = due,
                                                             !.toggles = @ + 1])
    \/ /\ page.animation.watchDue > 0
       /\ page.animation.nextFrameId <= MaxFrames
       /\ AnimationStep([setupAnimation(page.animation) EXCEPT !.watchDue = @ - 1])
    \/ /\ page.animation.nextFrameId <= MaxFrames
       /\ \E f \in page.animation.frames : \E elapsed \in 1..2 :
            AnimationStep(animate(page.animation, f, elapsed))
    \/ AnimationStep(resetAnimation(page.animation))
    \/ \E toggleKey \in {"slideEnabled", "scaleEnabled"} :
            AnimationStep(toggleAnimationType(page.animation, toggleKey))
    \/ AnimationStep(speedUp(page.animation))
    \/ AnimationStep(slowDown(page.animation))

SpecAnimation == InitSearch /\ [][NextAnimation]_vars

====
